---- MODULE Spec2Model ----
(***************************************************************************)
(* Scout Tracker: the four persisted relations (roster, requirement key,   *)
(* meetings, attendance), the cached loaders and saving functions of       *)
(* scout_tracker/data, the page handlers that mutate the relations, and    *)
(* the completion matrix (master_tracker) the dashboard derives from them. *)
(*                                                                         *)
(* Data representation                                                     *)
(*  - a DataFrame is the sequence of its rows, a row is a record;          *)
(*  - a date (datetime.date, or the "%Y-%m-%d" text of a CSV cell) is a    *)
(*    day number; a pandas Timestamp is a tick number, TicksPerDay ticks   *)
(*    to the day, so that midnight of day d is d * TicksPerDay;            *)
(*  - a text cell holding a comma-joined list is the sequence of its       *)
(*    comma-separated segments (the empty text is one empty segment), and  *)
(*    a missing cell is NaN.                                               *)
(***************************************************************************)
EXTENDS Integers, Sequences, FiniteSets, TLC

\* ------------------------------------------------------------------------
\* Bounds of the model
\* ------------------------------------------------------------------------
TicksPerDay == 2
MaxMeetings == 2
MaxReqs == 2
MaxApiRows == 2

Days == {1, 2}
Scouts == {"amy", "Bob"}
ReqIds == {"Bobcat.1", "BuildItUp.1"}
Titles == {"Den meeting"}
Loaders == {"load_roster", "load_requirement_key", "load_meetings", "load_attendance"}
Pages == {"Manage Roster", "Manage Requirements", "Manage Meetings",
          "Log Attendance", "Tracker Dashboard"}

VARIABLES ROSTER_FILE, REQUIREMENT_KEY_FILE, MEETINGS_FILE, ATTENDANCE_FILE,
          cache, session_state

files == <<ROSTER_FILE, REQUIREMENT_KEY_FILE, MEETINGS_FILE, ATTENDANCE_FILE>>
vars == <<ROSTER_FILE, REQUIREMENT_KEY_FILE, MEETINGS_FILE, ATTENDANCE_FILE,
          cache, session_state>>

\* ------------------------------------------------------------------------
\* Sequence helpers (DataFrame row operations)
\* ------------------------------------------------------------------------
Range(s) == {s[i] : i \in DOMAIN s}

\* the rows at the positions in sel, in the order of the frame
PickRows(df, sel) ==
  LET F[i \in 0..Len(df)] ==
        IF i = 0 THEN <<>>
        ELSE IF i \in sel THEN Append(F[i - 1], df[i]) ELSE F[i - 1]
  IN F[Len(df)]

str_strip_blank(text) == text = ""

\* ------------------------------------------------------------------------
\* Dates and text cells
\* ------------------------------------------------------------------------
to_datetime(day) == day * TicksPerDay
dt_date(ts) == ts \div TicksPerDay
strftime(ts) == ts \div TicksPerDay

NaN == [na |-> TRUE, parts |-> <<>>]
Str(parts) == [na |-> FALSE, parts |-> parts]
BlankText == Str(<<"">>)
notna(cell) == ~cell.na
str_join(ids) == IF ids = <<>> THEN BlankText ELSE Str(ids)
to_csv_cell(cell) == IF cell.na THEN BlankText ELSE cell
read_csv_cell(text) == IF text = BlankText THEN NaN ELSE text

\* key=lambda x: x.str.lower(): "Bob" sorts after "amy" although 'B' < 'a'
str_lower(name) == CASE name = "amy" -> 1 [] name = "Bob" -> 2 [] OTHER -> 0

RECURSIVE InsertSorted(_, _)
InsertSorted(sorted, name) ==
  IF sorted = <<>> THEN <<name>>
  ELSE IF str_lower(name) < str_lower(Head(sorted)) THEN <<name>> \o sorted
       ELSE <<Head(sorted)>> \o InsertSorted(Tail(sorted), name)

RECURSIVE sort_values(_)
sort_values(names) ==
  IF names = <<>> THEN <<>>
  ELSE InsertSorted(sort_values(SubSeq(names, 1, Len(names) - 1)), names[Len(names)])

\* ------------------------------------------------------------------------
\* data/io.py: reading the files, the cached loaders
\* ------------------------------------------------------------------------
\* what each loader makes of the text of its file
parse_roster(file) == sort_values(file)
parse_requirement_key(file) == file
parse_meetings(file) ==
  [n \in DOMAIN file |->
    LET row == file[n] IN
    [Meeting_Date |-> to_datetime(row.Meeting_Date),
     Meeting_Title |-> row.Meeting_Title,
     Req_IDs_Covered |-> read_csv_cell(row.Req_IDs_Covered),
     Optional |-> row.Optional]]
parse_attendance(file) ==
  [n \in DOMAIN file |->
    LET row == file[n] IN
    [Meeting_Date |-> to_datetime(row.Meeting_Date), Scout_Name |-> row.Scout_Name]]

read_file(loader) ==
  CASE loader = "load_roster" -> parse_roster(ROSTER_FILE)
    [] loader = "load_requirement_key" -> parse_requirement_key(REQUIREMENT_KEY_FILE)
    [] loader = "load_meetings" -> parse_meetings(MEETINGS_FILE)
    [] loader = "load_attendance" -> parse_attendance(ATTENDANCE_FILE)

\* st.cache_data: the memoised result if there is one, else the file
memo_or(memo, loader, fresh) == IF memo[loader] # <<>> THEN memo[loader][1] ELSE fresh
cache_data(loader) == memo_or(cache, loader, read_file(loader))
load_roster == cache_data("load_roster")
load_requirement_key == cache_data("load_requirement_key")
load_meetings == cache_data("load_meetings")
load_attendance == cache_data("load_attendance")

\* the cache after the loaders in `called` have run
cache_after_loads(called) ==
  [l \in Loaders |-> IF l \in called /\ cache[l] = <<>> THEN <<read_file(l)>> ELSE cache[l]]

\* variant: only the roster loader is cleared
clear_cache_roster_only(memo) ==
  [l \in Loaders |-> IF l = "load_roster" THEN <<>> ELSE memo[l]]

\* data/cache.py: every loader's memo is dropped
clear_cache(memo) == [l \in Loaders |-> <<>>]

\* data/io.py: the saving functions, as the new content of the file
save_roster(df) == sort_values(df)
save_requirements(df) == df
save_meetings(df) ==
  [n \in DOMAIN df |->
    LET row == df[n] IN
    [Meeting_Date |-> strftime(row.Meeting_Date),
     Meeting_Title |-> row.Meeting_Title,
     Req_IDs_Covered |-> to_csv_cell(row.Req_IDs_Covered),
     Optional |-> row.Optional]]
save_attendance(df) ==
  [n \in DOMAIN df |->
    LET row == df[n] IN
    [Meeting_Date |-> strftime(row.Meeting_Date), Scout_Name |-> row.Scout_Name]]

\* ------------------------------------------------------------------------
\* ui/pages/dashboard.py: the completion matrix
\* A DataFrame of booleans is its index (rows), its columns and the set of
\* its true cells; .at[row, col] = True enlarges the frame when the labels
\* are new.  A computation that can raise yields [raised, value].
\* ------------------------------------------------------------------------
Return(v) == [raised |-> FALSE, value |-> v]
Raise(v) == [raised |-> TRUE, value |-> v]

DataFrameFalse(index, columns) ==
  [index |-> index, columns |-> columns, true |-> {}, raised |-> FALSE]
at_set_true(df, row, col) ==
  [df EXCEPT !.index = @ \cup {row}, !.columns = @ \cup {col}, !.true = @ \cup {<<row, col>>}]

\* str.split(","): a float NaN has no attribute split
str_split(cell) == IF cell.na THEN Raise(<<>>) ELSE Return(cell.parts)

\* variant: the field is split without the pd.notna test
req_ids_covered_unguarded(meeting) == str_split(meeting.Req_IDs_Covered)

\* line 37: the covered IDs of one meeting row
req_ids_covered(meeting) ==
  IF notna(meeting.Req_IDs_Covered) THEN str_split(meeting.Req_IDs_Covered) ELSE Return(<<>>)

\* variant: a row whose date is already a key is skipped
RECURSIVE lookup_rows_first_wins(_, _, _)
lookup_rows_first_wins(meetings_df, i, dict) ==
  IF i > Len(meetings_df) THEN Return(dict)
  ELSE LET key == meetings_df[i].Meeting_Date
           val == req_ids_covered(meetings_df[i])
       IN IF val.raised THEN Raise(dict)
          ELSE lookup_rows_first_wins(meetings_df, i + 1,
                 [k \in DOMAIN dict \cup {key} |->
                    IF k \in DOMAIN dict THEN dict[k] ELSE val.value])

\* lines 35-38: dict Meeting_Date -> Req_IDs_Covered, a later row overwrites
RECURSIVE lookup_rows(_, _, _)
lookup_rows(meetings_df, i, dict) ==
  IF i > Len(meetings_df) THEN Return(dict)
  ELSE LET key == meetings_df[i].Meeting_Date
           val == req_ids_covered(meetings_df[i])
       IN IF val.raised THEN Raise(dict)
          ELSE lookup_rows(meetings_df, i + 1,
                 [k \in DOMAIN dict \cup {key} |-> IF k = key THEN val.value ELSE dict[k]])

meeting_req_lookup(meetings_df) == lookup_rows(meetings_df, 1, <<>>)

\* variant: the loop over the covered IDs stops after the first one
mark_covered_first_only(tracker, scout_name, covered, j) ==
  IF j > Len(covered) \/ j > 1 THEN tracker
  ELSE IF covered[j] \in tracker.columns
         THEN at_set_true(tracker, scout_name, covered[j]) ELSE tracker

\* variant: every covered ID is marked, whether or not it is a column
RECURSIVE mark_covered_any_id(_, _, _, _)
mark_covered_any_id(tracker, scout_name, covered, j) ==
  IF j > Len(covered) THEN tracker
  ELSE mark_covered_any_id(at_set_true(tracker, scout_name, covered[j]),
                           scout_name, covered, j + 1)

\* lines 47-50: mark each covered ID that is a column
RECURSIVE mark_covered(_, _, _, _)
mark_covered(tracker, scout_name, covered, j) ==
  IF j > Len(covered) THEN tracker
  ELSE mark_covered(
         IF covered[j] \in tracker.columns
           THEN at_set_true(tracker, scout_name, covered[j]) ELSE tracker,
         scout_name, covered, j + 1)

\* variant: the attendance row is used without the membership checks
row_is_known_unchecked(tracker, dict, scout_name, meeting_date) == TRUE

\* line 45
row_is_known(tracker, dict, scout_name, meeting_date) ==
  scout_name \in tracker.index /\ meeting_date \in DOMAIN dict

\* variant: an attendance row first clears what the scout had earned
credit_row_resets(tracker, dict, scout_name, meeting_date) ==
  IF scout_name \in tracker.index /\ meeting_date \in DOMAIN dict
    THEN mark_covered([tracker EXCEPT !.true = {cell \in @ : cell[1] # scout_name}],
                      scout_name, dict[meeting_date], 1)
    ELSE tracker

\* lines 45-50: one attendance row; dict[meeting_date] raises KeyError when
\* the date is not a key
credit_row(tracker, dict, scout_name, meeting_date) ==
  IF row_is_known(tracker, dict, scout_name, meeting_date)
    THEN IF meeting_date \in DOMAIN dict
           THEN mark_covered(tracker, scout_name, dict[meeting_date], 1)
           ELSE [tracker EXCEPT !.raised = TRUE]
    ELSE tracker

\* lines 41-50: one pass over the attendance rows
RECURSIVE process_attendance(_, _, _, _)
process_attendance(tracker, dict, attendance_df, i) ==
  IF i > Len(attendance_df) \/ tracker.raised THEN tracker
  ELSE process_attendance(
         credit_row(tracker, dict, attendance_df[i].Scout_Name, attendance_df[i].Meeting_Date),
         dict, attendance_df, i + 1)

\* lines 28-50
build_master_tracker(roster_df, requirement_key, meetings_df, attendance_df) ==
  LET scouts == {roster_df[i] : i \in DOMAIN roster_df}
      req_ids == {requirement_key[i].Req_ID : i \in DOMAIN requirement_key}
      lookup == meeting_req_lookup(meetings_df)
  IN IF lookup.raised
       THEN [DataFrameFalse(scouts, req_ids) EXCEPT !.raised = TRUE]
       ELSE process_attendance(DataFrameFalse(scouts, req_ids), lookup.value, attendance_df, 1)

\* lines 18-50: the matrix a render of the dashboard builds when the files
\* and the loaders' memos are as given (with an empty roster the page
\* returns at line 25 and shows no matrix: the frame then has no row)
dashboard_tracker(roster_file, requirement_key_file, meetings_file, attendance_file, memo) ==
  build_master_tracker(
    memo_or(memo, "load_roster", parse_roster(roster_file)),
    memo_or(memo, "load_requirement_key", parse_requirement_key(requirement_key_file)),
    memo_or(memo, "load_meetings", parse_meetings(meetings_file)),
    memo_or(memo, "load_attendance", parse_attendance(attendance_file)))

\* in the current state, and in the state a step leads to
master_tracker ==
  dashboard_tracker(ROSTER_FILE, REQUIREMENT_KEY_FILE, MEETINGS_FILE, ATTENDANCE_FILE, cache)
master_tracker_next ==
  dashboard_tracker(ROSTER_FILE', REQUIREMENT_KEY_FILE', MEETINGS_FILE', ATTENDANCE_FILE', cache')

\* ------------------------------------------------------------------------
\* ui/pages/dashboard.py: the summary view.  A float percentage is the exact
\* fraction num / den.
\* ------------------------------------------------------------------------
\* Series.unique(): the values in the order of their first appearance
RECURSIVE unique(_)
unique(values) ==
  IF values = <<>> THEN <<>>
  ELSE LET before == unique(SubSeq(values, 1, Len(values) - 1))
           last == values[Len(values)]
       IN IF last \in Range(before) THEN before ELSE Append(before, last)

column(df, name) == [n \in DOMAIN df |-> df[n][name]]

\* line 59
required_adventures(requirement_key) ==
  unique(column(SelectSeq(requirement_key, LAMBDA row : row.Required = TRUE), "Adventure"))

\* line 60
elective_adventures(requirement_key) ==
  unique(column(SelectSeq(requirement_key, LAMBDA row : row.Required = FALSE), "Adventure"))

\* lines 73 and 88
adventure_reqs(requirement_key, adventure) ==
  column(SelectSeq(requirement_key, LAMBDA row : row.Adventure = adventure), "Req_ID")

\* lines 74 and 89: master_tracker.loc[scout, adventure_reqs].sum()
completed(tracker, scout, reqs) ==
  Cardinality({j \in DOMAIN reqs : <<scout, reqs[j]>> \in tracker.true})

\* variant: the division is done whatever the total
percentage_unguarded(done, total) == [num |-> done * 100, den |-> total]

\* lines 76 and 91
percentage(done, total) ==
  IF total > 0 THEN [num |-> done * 100, den |-> total] ELSE [num |-> 0, den |-> 1]

\* percentage < 100.0 and percentage == 100.0
below_100(pct) == pct.num < 100 * pct.den
equals_100(pct) == pct.num = 100 * pct.den

\* lines 73-76: the rollup of one adventure for one scout
adventure_progress(requirement_key, tracker, scout, adventure) ==
  LET reqs == adventure_reqs(requirement_key, adventure)
      done == completed(tracker, scout, reqs)
      total == Len(reqs)
  IN [completed |-> done, total |-> total, percentage |-> percentage(done, total)]

\* variant: one completed elective adventure is enough
lion_rank_rule_one_elective(all_required_complete, completed_electives) ==
  all_required_complete /\ completed_electives >= 1

\* line 98
lion_rank_rule(all_required_complete, completed_electives) ==
  all_required_complete /\ completed_electives >= 2

\* lines 67-104: the row of the rank table for one scout
rank_completion(requirement_key, tracker, scout) ==
  LET required == required_adventures(requirement_key)
      elective == elective_adventures(requirement_key)
      all_required_complete ==
        \A n \in DOMAIN required :
          ~below_100(adventure_progress(requirement_key, tracker, scout, required[n]).percentage)
      completed_electives ==
        Cardinality({n \in DOMAIN elective :
          equals_100(adventure_progress(requirement_key, tracker, scout, elective[n]).percentage)})
  IN [all_required_complete |-> all_required_complete,
      completed_electives |-> completed_electives,
      lion_rank_earned |-> lion_rank_rule(all_required_complete, completed_electives)]

\* ------------------------------------------------------------------------
\* ui/pages/plan_meetings.py: the planning report
\* ------------------------------------------------------------------------
\* lines 27-50: the page builds the matrix as the dashboard does
plan_meetings_tracker(roster_df, requirement_key, meetings_df, attendance_df) ==
  build_master_tracker(roster_df, requirement_key, meetings_df, attendance_df)

\* line 52
required_reqs(requirement_key) == SelectSeq(requirement_key, LAMBDA row : row.Required = TRUE)

\* line 64: master_tracker[req_id].sum()
completed_count(tracker, scouts, req_id) ==
  Cardinality({n \in DOMAIN scouts : <<scouts[n], req_id>> \in tracker.true})

\* line 66
completion_percentage(done, total_scouts) ==
  IF total_scouts > 0 THEN [num |-> done * 100, den |-> total_scouts] ELSE [num |-> 0, den |-> 1]

\* variant: every scout of the roster is listed as missing
scouts_missing_everyone(tracker, scouts, req_id) == scouts

\* line 69
scouts_missing(tracker, scouts, req_id) ==
  SelectSeq(scouts, LAMBDA scout : <<scout, req_id>> \notin tracker.true)

\* lines 57-78
planning_data(requirement_key, tracker, scouts) ==
  LET required == required_reqs(requirement_key)
  IN [n \in DOMAIN required |->
       LET req_row == required[n]
           done == completed_count(tracker, scouts, req_row.Req_ID)
       IN [Req_ID |-> req_row.Req_ID,
           Adventure |-> req_row.Adventure,
           Requirement |-> req_row.Requirement_Description,
           Completed |-> done,
           Total_Scouts |-> Len(scouts),
           Pct_Complete |-> completion_percentage(done, Len(scouts)),
           Scouts_Missing |-> scouts_missing(tracker, scouts, req_row.Req_ID)]]

\* sort_values("% Complete", ascending=True) on the rows; rows of equal
\* percentage are left in the order they had
RECURSIVE insert_by_pct(_, _)
insert_by_pct(sorted, row) ==
  IF sorted = <<>> THEN <<row>>
  ELSE LET last == sorted[Len(sorted)]
       IN IF row.Pct_Complete.num * last.Pct_Complete.den
               < last.Pct_Complete.num * row.Pct_Complete.den
            THEN Append(insert_by_pct(SubSeq(sorted, 1, Len(sorted) - 1), row), last)
            ELSE Append(sorted, row)

RECURSIVE sort_by_pct(_)
sort_by_pct(rows) ==
  IF rows = <<>> THEN <<>>
  ELSE insert_by_pct(sort_by_pct(SubSeq(rows, 1, Len(rows) - 1)), rows[Len(rows)])

\* lines 80-83: a DataFrame made of no row has no column, and sorting it by
\* "% Complete" raises KeyError
planning_df(rows) ==
  IF rows = <<>> THEN Raise(<<>>) ELSE Return(sort_by_pct(rows))

\* ------------------------------------------------------------------------
\* services/pdf_export.py: generate_scout_progress_report, the part that
\* finds the meetings a scout missed and what they covered
\* ------------------------------------------------------------------------
\* line 701
report_req_ids_covered(meeting) ==
  IF notna(meeting.Req_IDs_Covered) THEN meeting.Req_IDs_Covered.parts ELSE <<>>

\* lines 700-710: dict Meeting_Date -> details, a later row overwrites
meeting_details(meetings_df) ==
  [d \in {meetings_df[i].Meeting_Date : i \in DOMAIN meetings_df} |->
    LET last == CHOOSE i \in DOMAIN meetings_df :
                  /\ meetings_df[i].Meeting_Date = d
                  /\ \A k \in DOMAIN meetings_df : meetings_df[k].Meeting_Date = d => k <= i
        meeting == meetings_df[last]
    IN [title |-> meeting.Meeting_Title,
        date |-> meeting.Meeting_Date,
        req_ids |-> report_req_ids_covered(meeting),
        optional |-> meeting.Optional]]

\* variant: the optional meetings are taken in as well
required_meeting_dates_with_optional(meetings_df) ==
  {meetings_df[i].Meeting_Date : i \in DOMAIN meetings_df}

\* lines 702 and 712-713
required_meeting_dates(meetings_df) ==
  {meetings_df[i].Meeting_Date : i \in {k \in DOMAIN meetings_df : ~meetings_df[k].Optional}}

\* lines 716-717
meetings_attended_dates(attendance_df, scout_name) ==
  {attendance_df[i].Meeting_Date :
     i \in {k \in DOMAIN attendance_df : attendance_df[k].Scout_Name = scout_name}}

\* lines 691-692 and 720-724: dict Req_ID -> earned
scout_progress(requirement_key, details, attended) ==
  [req_id \in {requirement_key[i].Req_ID : i \in DOMAIN requirement_key} |->
    \E d \in attended \cap DOMAIN details : req_id \in Range(details[d].req_ids)]

\* variant: the meetings the scout attended are not taken out
missed_meeting_dates_of_all(required_dates, attended) == required_dates

\* line 813
missed_meeting_dates(required_dates, attended) == required_dates \ attended

\* sorted(): the dates in ascending order
RECURSIVE sorted(_)
sorted(dates) ==
  IF dates = {} THEN <<>>
  ELSE LET first == CHOOSE d \in dates : \A e \in dates : d <= e
       IN <<first>> \o sorted(dates \ {first})

\* variant: no requirement is marked as completed at another meeting
completed_elsewhere_never(progress, req_id) == FALSE

\* line 832: scout_progress.get(req_id, False)
completed_elsewhere(progress, req_id) ==
  IF req_id \in DOMAIN progress THEN progress[req_id] ELSE FALSE

\* lines 822-834: the covered IDs that are not empty and are in the catalog
reqs_covered(requirement_key, progress, req_ids_at_meeting) ==
  LET known == SelectSeq(req_ids_at_meeting, LAMBDA req_id :
                 req_id # "" /\ \E i \in DOMAIN requirement_key : requirement_key[i].Req_ID = req_id)
  IN [n \in DOMAIN known |->
       LET req_id == known[n]
           req_info == SelectSeq(requirement_key, LAMBDA row : row.Req_ID = req_id)
       IN [req_id |-> req_id,
           adventure |-> req_info[1].Adventure,
           description |-> req_info[1].Requirement_Description,
           required |-> req_info[1].Required,
           completed_elsewhere |-> completed_elsewhere(progress, req_id)]]

\* lines 813-841
missed_meetings_info(requirement_key, details, progress, missed) ==
  LET dates == sorted(missed)
      entries == [n \in DOMAIN dates |->
                   [date |-> details[dates[n]].date,
                    title |-> details[dates[n]].title,
                    requirements |-> reqs_covered(requirement_key, progress,
                                                  details[dates[n]].req_ids)]]
  IN SelectSeq(entries, LAMBDA entry : entry.requirements # <<>>)

\* lines 843-856: the requirements of the missed meetings that the scout has
\* not earned, each once, by adventure
incomplete_reqs_by_adventure(missed_info) ==
  LET open == {req \in UNION {Range(missed_info[n].requirements) : n \in DOMAIN missed_info} :
                 ~req.completed_elsewhere}
  IN [adventure \in {req.adventure : req \in open} |->
       {req.req_id : req \in {r \in open : r.adventure = adventure}}]

\* lines 736-740: completed, total and is_complete of an adventure, counted
\* within the rows of reqs_df
calc_adventure_progress(adventure, reqs_df, progress_dict) ==
  LET reqs == column(SelectSeq(reqs_df, LAMBDA row : row.Adventure = adventure), "Req_ID")
      done == Cardinality({j \in DOMAIN reqs : completed_elsewhere(progress_dict, reqs[j])})
  IN [completed |-> done, total |-> Len(reqs), is_complete |-> done = Len(reqs)]

\* lines 728-762
report_rank_earned(requirement_key, progress) ==
  LET required_rows == required_reqs(requirement_key)
      elective_reqs == SelectSeq(requirement_key, LAMBDA row : row.Required = FALSE)
      required == unique(column(required_rows, "Adventure"))
      elective == unique(column(elective_reqs, "Adventure"))
      scout_required_adventures_complete ==
        Cardinality({n \in DOMAIN required :
          calc_adventure_progress(required[n], required_rows, progress).is_complete})
      scout_elective_adventures_complete ==
        Cardinality({n \in DOMAIN elective :
          calc_adventure_progress(elective[n], elective_reqs, progress).is_complete})
  IN /\ scout_required_adventures_complete = Len(required)
     /\ scout_elective_adventures_complete >= 2

\* lines 686-856: what the report holds on the rank and on missed meetings
generate_scout_progress_report(scout_name, roster_df, requirement_key, meetings_df, attendance_df) ==
  LET details == meeting_details(meetings_df)
      attended == meetings_attended_dates(attendance_df, scout_name)
      progress == scout_progress(requirement_key, details, attended)
      missed == missed_meeting_dates(required_meeting_dates(meetings_df), attended)
      info == missed_meetings_info(requirement_key, details, progress, missed)
  IN [scout_progress |-> progress,
      rank_earned |-> report_rank_earned(requirement_key, progress),
      missed_meetings_info |-> info,
      incomplete_reqs_by_adventure |-> incomplete_reqs_by_adventure(info)]

\* ------------------------------------------------------------------------
\* ui/pages/individual_reports.py: the progress summary of one scout
\* ------------------------------------------------------------------------
\* lines 36-78: dict Req_ID -> earned
individual_scout_progress(selected_scout, requirement_key, meetings_df, attendance_df) ==
  LET lookup == meeting_req_lookup(meetings_df).value
      scout_attendance == SelectSeq(attendance_df, LAMBDA row : row.Scout_Name = selected_scout)
  IN [req_id \in {requirement_key[i].Req_ID : i \in DOMAIN requirement_key} |->
       \E n \in DOMAIN scout_attendance :
         /\ scout_attendance[n].Meeting_Date \in DOMAIN lookup
         /\ req_id \in Range(lookup[scout_attendance[n].Meeting_Date])]

\* lines 92-111
individual_rank_earned(requirement_key, progress) ==
  LET required_rows == required_reqs(requirement_key)
      elective_reqs == SelectSeq(requirement_key, LAMBDA row : row.Required = FALSE)
      required_completed ==
        Cardinality({n \in DOMAIN required_rows :
                       completed_elsewhere(progress, required_rows[n].Req_ID)})
      required_total == Len(required_rows)
      elective == unique(column(elective_reqs, "Adventure"))
      completed_electives ==
        Cardinality({n \in DOMAIN elective :
          \A k \in DOMAIN elective_reqs :
            elective_reqs[k].Adventure = elective[n] =>
              completed_elsewhere(progress, elective_reqs[k].Req_ID)})
      all_required_complete == required_completed = required_total
  IN all_required_complete /\ completed_electives >= 2

\* ------------------------------------------------------------------------
\* ui/pages/meeting_reports.py: the attendance summary of one meeting
\* ------------------------------------------------------------------------
\* lines 103-115
meeting_report(selected_meeting, roster_df, attendance_df) ==
  LET meeting_attendance ==
        SelectSeq(attendance_df, LAMBDA row : row.Meeting_Date = selected_meeting.Meeting_Date)
      scouts_attended == column(meeting_attendance, "Scout_Name")
      all_scouts == roster_df
      scouts_absent == SelectSeq(all_scouts, LAMBDA scout : scout \notin Range(scouts_attended))
      total_scouts == Len(all_scouts)
      present_count == Len(scouts_attended)
      absent_count == Len(scouts_absent)
  IN [total_scouts |-> total_scouts,
      present_count |-> present_count,
      absent_count |-> absent_count,
      attendance_percentage |->
        IF total_scouts > 0 THEN [num |-> present_count * 100, den |-> total_scouts]
                            ELSE [num |-> 0, den |-> 1]]

\* ------------------------------------------------------------------------
\* State after initialize_data_files()
\* ------------------------------------------------------------------------
LION_REQUIREMENTS ==
  << [Req_ID |-> "Bobcat.1", Adventure |-> "Bobcat",
      Requirement_Description |-> "1. Get to know the members of your den",
      Required |-> TRUE],
     [Req_ID |-> "BuildItUp.1", Adventure |-> "Build It Up, Knock It Down",
      Requirement_Description |-> "1. With your Lion adult partner, build a structure",
      Required |-> FALSE] >>

\* config/constants.py: the list of the second rank, and the ranks on offer
TIGER_REQUIREMENTS ==
  << [Req_ID |-> "BobcatTiger.1", Adventure |-> "Bobcat Tiger",
      Requirement_Description |-> "Get to know members of your den.",
      Required |-> TRUE],
     [Req_ID |-> "ChampionsNatureTiger.1", Adventure |-> "Champions for Nature Tiger",
      Requirement_Description |->
        "Play a game where you are an animal that needs to find food, water, shelter, and space.",
      Required |-> FALSE],
     [Req_ID |-> "BobcatTiger.2", Adventure |-> "Bobcat Tiger",
      Requirement_Description |-> "Recite the Scout Oath and Law with your den and den leader.",
      Required |-> TRUE] >>

RANK_REQUIREMENTS ==
  [rank \in {"Lion (Kindergarten)", "Tiger (1st Grade)"} |->
    IF rank = "Lion (Kindergarten)" THEN LION_REQUIREMENTS ELSE TIGER_REQUIREMENTS]

Init ==
  /\ ROSTER_FILE = <<>>
  /\ REQUIREMENT_KEY_FILE = LION_REQUIREMENTS
  /\ MEETINGS_FILE = <<>>
  /\ ATTENDANCE_FILE = <<>>
  /\ cache = [l \in Loaders |-> <<>>]
  /\ session_state = [confirm_delete |-> <<>>, confirm_load_rank |-> FALSE,
                      confirm_reset |-> FALSE, confirm_clear |-> FALSE,
                      onboarding_complete |-> <<>>, onboarding_step |-> <<>>,
                      selected_rank |-> <<>>, navigation |-> <<>>]

\* ------------------------------------------------------------------------
\* A script run that only renders a page: its loaders run
\* ------------------------------------------------------------------------
PageLoads(page) ==
  CASE page = "Manage Roster" -> {"load_roster"}
    [] page = "Manage Requirements" -> {"load_requirement_key"}
    [] page = "Manage Meetings" -> {"load_requirement_key", "load_meetings"}
    [] page = "Log Attendance" -> {"load_roster", "load_meetings", "load_attendance"}
    [] page = "Tracker Dashboard" -> Loaders
    [] page = "Plan Meetings" -> Loaders
    [] page = "Individual Reports" -> Loaders
    [] page = "Meeting Reports" -> Loaders

Render(page) ==
  /\ cache' = cache_after_loads(PageLoads(page))
  /\ UNCHANGED <<files, session_state>>

\* a handler that reports st.error and saves nothing
Rejected(page) == Render(page)

\* ------------------------------------------------------------------------
\* ui/pages/roster.py
\* ------------------------------------------------------------------------
AddScout(new_scout_name) ==
  LET roster_df == load_roster
  IN IF str_strip_blank(new_scout_name) \/ new_scout_name \in Range(roster_df)
       THEN Rejected("Manage Roster")
       ELSE /\ ROSTER_FILE' = save_roster(Append(roster_df, new_scout_name))
            /\ cache' = clear_cache(cache_after_loads(PageLoads("Manage Roster")))
            /\ UNCHANGED <<REQUIREMENT_KEY_FILE, MEETINGS_FILE, ATTENDANCE_FILE, session_state>>

\* variant: removing a scout also deletes the scout's attendance records
RemoveScout_cascade(scout_to_remove) ==
  LET roster_df == load_roster
  IN /\ scout_to_remove \in Range(roster_df)
     /\ ROSTER_FILE' = save_roster(SelectSeq(roster_df, LAMBDA name : name # scout_to_remove))
     /\ ATTENDANCE_FILE' = save_attendance(
          SelectSeq(load_attendance, LAMBDA row : row.Scout_Name # scout_to_remove))
     /\ cache' = clear_cache(cache_after_loads(PageLoads("Manage Roster")))
     /\ UNCHANGED <<REQUIREMENT_KEY_FILE, MEETINGS_FILE, session_state>>

\* lines 117-121
RemoveScout(scout_to_remove) ==
  LET roster_df == load_roster
  IN /\ scout_to_remove \in Range(roster_df)
     /\ ROSTER_FILE' = save_roster(SelectSeq(roster_df, LAMBDA name : name # scout_to_remove))
     /\ cache' = clear_cache(cache_after_loads(PageLoads("Manage Roster")))
     /\ UNCHANGED <<REQUIREMENT_KEY_FILE, MEETINGS_FILE, ATTENDANCE_FILE, session_state>>

\* ------------------------------------------------------------------------
\* ui/pages/requirements.py
\* ------------------------------------------------------------------------
AddRequirement(new_req_id, new_adventure, new_description, new_required) ==
  LET requirements_df == load_requirement_key
  IN /\ Len(requirements_df) < MaxReqs
     /\ IF \/ str_strip_blank(new_req_id) \/ str_strip_blank(new_adventure)
           \/ str_strip_blank(new_description)
           \/ new_req_id \in {requirements_df[i].Req_ID : i \in DOMAIN requirements_df}
          THEN Rejected("Manage Requirements")
          ELSE /\ REQUIREMENT_KEY_FILE' = save_requirements(Append(requirements_df,
                    [Req_ID |-> new_req_id, Adventure |-> new_adventure,
                     Requirement_Description |-> new_description,
                     Required |-> new_required]))
               /\ cache' = clear_cache(cache_after_loads(PageLoads("Manage Requirements")))
               /\ UNCHANGED <<ROSTER_FILE, MEETINGS_FILE, ATTENDANCE_FILE, session_state>>

EditRequirement(selected_req_id, edit_adventure, edit_description, edit_required) ==
  LET requirements_df == load_requirement_key
  IN /\ selected_req_id \in {requirements_df[i].Req_ID : i \in DOMAIN requirements_df}
     /\ REQUIREMENT_KEY_FILE' = save_requirements([n \in DOMAIN requirements_df |->
          LET row == requirements_df[n] IN
          IF row.Req_ID = selected_req_id
            THEN [Req_ID |-> row.Req_ID, Adventure |-> edit_adventure,
                  Requirement_Description |-> edit_description,
                  Required |-> edit_required]
            ELSE row])
     /\ cache' = clear_cache(cache_after_loads(PageLoads("Manage Requirements")))
     /\ UNCHANGED <<ROSTER_FILE, MEETINGS_FILE, ATTENDANCE_FILE, session_state>>

DeleteRequirement(req_to_delete) ==
  LET requirements_df == load_requirement_key
  IN /\ req_to_delete \in {requirements_df[i].Req_ID : i \in DOMAIN requirements_df}
     /\ REQUIREMENT_KEY_FILE' = save_requirements(
          SelectSeq(requirements_df, LAMBDA row : row.Req_ID # req_to_delete))
     /\ cache' = clear_cache(cache_after_loads(PageLoads("Manage Requirements")))
     /\ UNCHANGED <<ROSTER_FILE, MEETINGS_FILE, ATTENDANCE_FILE, session_state>>

\* lines 238-265: the Import Requirements button with a file uploaded.  The
\* uploaded files of the model all carry the four required columns.
ImportRequirements(uploaded_file, import_mode) ==
  LET requirements_df == load_requirement_key
      imported_df == parse_requirement_key(uploaded_file)
      saved(df) ==
        /\ REQUIREMENT_KEY_FILE' = save_requirements(df)
        /\ cache' = clear_cache(cache_after_loads(PageLoads("Manage Requirements")))
        /\ UNCHANGED <<ROSTER_FILE, MEETINGS_FILE, ATTENDANCE_FILE, session_state>>
  IN IF import_mode = "Replace All (clear existing)"
       THEN saved(imported_df)
       ELSE LET existing_ids == {requirements_df[i].Req_ID : i \in DOMAIN requirements_df}
                new_reqs == SelectSeq(imported_df, LAMBDA row : row.Req_ID \notin existing_ids)
            IN IF new_reqs # <<>>
                 THEN saved(requirements_df \o new_reqs)
                 ELSE Rejected("Manage Requirements")

\* lines 309-318: the first click arms the confirmation, the next one loads
\* the rank that is selected then
LoadRank(selected_rank) ==
  IF session_state.confirm_load_rank
    THEN /\ REQUIREMENT_KEY_FILE' = save_requirements(RANK_REQUIREMENTS[selected_rank])
         /\ session_state' = [session_state EXCEPT !.confirm_load_rank = FALSE]
         /\ cache' = clear_cache(cache_after_loads(PageLoads("Manage Requirements")))
         /\ UNCHANGED <<ROSTER_FILE, MEETINGS_FILE, ATTENDANCE_FILE>>
    ELSE /\ session_state' = [session_state EXCEPT !.confirm_load_rank = TRUE]
         /\ cache' = cache_after_loads(PageLoads("Manage Requirements"))
         /\ UNCHANGED files

\* lines 328-338
ResetToDefaults ==
  IF session_state.confirm_reset
    THEN /\ REQUIREMENT_KEY_FILE' = save_requirements(LION_REQUIREMENTS)
         /\ session_state' = [session_state EXCEPT !.confirm_reset = FALSE]
         /\ cache' = clear_cache(cache_after_loads(PageLoads("Manage Requirements")))
         /\ UNCHANGED <<ROSTER_FILE, MEETINGS_FILE, ATTENDANCE_FILE>>
    ELSE /\ session_state' = [session_state EXCEPT !.confirm_reset = TRUE]
         /\ cache' = cache_after_loads(PageLoads("Manage Requirements"))
         /\ UNCHANGED files

\* lines 341-350
ClearAllRequirements ==
  IF session_state.confirm_clear
    THEN /\ REQUIREMENT_KEY_FILE' = save_requirements(<<>>)
         /\ session_state' = [session_state EXCEPT !.confirm_clear = FALSE]
         /\ cache' = clear_cache(cache_after_loads(PageLoads("Manage Requirements")))
         /\ UNCHANGED <<ROSTER_FILE, MEETINGS_FILE, ATTENDANCE_FILE>>
    ELSE /\ session_state' = [session_state EXCEPT !.confirm_clear = TRUE]
         /\ cache' = cache_after_loads(PageLoads("Manage Requirements"))
         /\ UNCHANGED files

\* ------------------------------------------------------------------------
\* ui/pages/meetings.py
\* ------------------------------------------------------------------------
\* lines 72-73 and 165-166: the Req_ID before " - " of each selected option
selected_req_ids(requirement_key, selected_requirements) ==
  LET selected == PickRows(requirement_key, selected_requirements)
  IN [n \in DOMAIN selected |-> selected[n].Req_ID]

meeting_dates(meetings_df) == {dt_date(meetings_df[i].Meeting_Date) : i \in DOMAIN meetings_df}

\* line 68
add_date_exists(meetings_df, meeting_date) ==
  meetings_df # <<>> /\ meeting_date \in meeting_dates(meetings_df)

\* variant: a changed date is never checked against the other meetings
edit_date_unchecked(meetings_df, edit_date) == FALSE

\* line 161
edit_date_conflicts(meetings_df, edit_date) == edit_date \in meeting_dates(meetings_df)

\* lines 63-86
AddMeeting(meeting_date, meeting_title, selected_requirements, optional_meeting) ==
  LET requirement_key == load_requirement_key
      meetings_df == load_meetings
  IN /\ selected_requirements \subseteq DOMAIN requirement_key
     /\ Len(meetings_df) < MaxMeetings
     /\ IF \/ str_strip_blank(meeting_title)
           \/ selected_requirements = {}
           \/ add_date_exists(meetings_df, meeting_date)
          THEN Rejected("Manage Meetings")
          ELSE LET req_ids_str == str_join(selected_req_ids(requirement_key, selected_requirements))
                   new_meeting == [Meeting_Date |-> to_datetime(meeting_date),
                                   Meeting_Title |-> meeting_title,
                                   Req_IDs_Covered |-> req_ids_str,
                                   Optional |-> optional_meeting]
               IN /\ MEETINGS_FILE' = save_meetings(Append(meetings_df, new_meeting))
                  /\ cache' = clear_cache(cache_after_loads(PageLoads("Manage Meetings")))
                  /\ UNCHANGED <<ROSTER_FILE, REQUIREMENT_KEY_FILE, ATTENDANCE_FILE, session_state>>

\* lines 169-172: the date is rewritten first, the other cells are then
\* written to every row that carries the new date
update_date_changed(meetings_df, selected_date, edit_date, edit_title, req_ids_str, edit_optional) ==
  LET moved == [n \in DOMAIN meetings_df |-> LET row == meetings_df[n] IN
                 IF row.Meeting_Date = selected_date
                   THEN [row EXCEPT !.Meeting_Date = to_datetime(edit_date)] ELSE row]
  IN [n \in DOMAIN moved |-> LET row == moved[n] IN
       IF row.Meeting_Date = to_datetime(edit_date)
         THEN [row EXCEPT !.Meeting_Title = edit_title, !.Req_IDs_Covered = req_ids_str,
                          !.Optional = edit_optional]
         ELSE row]

\* variant: the covered requirements are not written back
update_same_date_keeps_coverage(meetings_df, selected_date, edit_title, req_ids_str, edit_optional) ==
  [n \in DOMAIN meetings_df |-> LET row == meetings_df[n] IN
    IF row.Meeting_Date = selected_date
      THEN [row EXCEPT !.Meeting_Title = edit_title, !.Optional = edit_optional]
      ELSE row]

\* lines 183-185
update_same_date(meetings_df, selected_date, edit_title, req_ids_str, edit_optional) ==
  [n \in DOMAIN meetings_df |-> LET row == meetings_df[n] IN
    IF row.Meeting_Date = selected_date
      THEN [row EXCEPT !.Meeting_Title = edit_title, !.Req_IDs_Covered = req_ids_str,
                       !.Optional = edit_optional]
      ELSE row]

\* lines 154-190
UpdateMeeting(selected_date_str, edit_date, edit_title, edit_requirements, edit_optional) ==
  LET requirement_key == load_requirement_key
      meetings_df == load_meetings
      selected_date == to_datetime(selected_date_str)
      req_ids_str == str_join(selected_req_ids(requirement_key, edit_requirements))
      saved(df) ==
        /\ MEETINGS_FILE' = save_meetings(df)
        /\ cache' = clear_cache(cache_after_loads(PageLoads("Manage Meetings")))
        /\ UNCHANGED <<ROSTER_FILE, REQUIREMENT_KEY_FILE, ATTENDANCE_FILE, session_state>>
  IN /\ selected_date_str \in {strftime(meetings_df[i].Meeting_Date) : i \in DOMAIN meetings_df}
     /\ edit_requirements \subseteq DOMAIN requirement_key
     /\ IF str_strip_blank(edit_title) \/ edit_requirements = {}
          THEN Rejected("Manage Meetings")
          ELSE IF edit_date # dt_date(selected_date)
                 THEN IF edit_date_conflicts(meetings_df, edit_date)
                        THEN Rejected("Manage Meetings")
                        ELSE saved(update_date_changed(meetings_df, selected_date, edit_date,
                                                       edit_title, req_ids_str, edit_optional))
                 ELSE saved(update_same_date(meetings_df, selected_date,
                                             edit_title, req_ids_str, edit_optional))

\* lines 192-204: the first click arms the confirmation, a click on the
\* armed meeting deletes it, a click on another meeting does nothing
DeleteMeeting(selected_date_str) ==
  LET meetings_df == load_meetings
      selected_date == to_datetime(selected_date_str)
  IN /\ selected_date_str \in {strftime(meetings_df[i].Meeting_Date) : i \in DOMAIN meetings_df}
     /\ IF session_state.confirm_delete = <<>>
          THEN /\ session_state' = [session_state EXCEPT !.confirm_delete = <<selected_date_str>>]
               /\ cache' = cache_after_loads(PageLoads("Manage Meetings"))
               /\ UNCHANGED files
          ELSE IF session_state.confirm_delete = <<selected_date_str>>
                 THEN /\ MEETINGS_FILE' = save_meetings(
                           SelectSeq(meetings_df, LAMBDA row : row.Meeting_Date # selected_date))
                      /\ cache' = clear_cache(cache_after_loads(PageLoads("Manage Meetings")))
                      /\ session_state' = [session_state EXCEPT !.confirm_delete = <<>>]
                      /\ UNCHANGED <<ROSTER_FILE, REQUIREMENT_KEY_FILE, ATTENDANCE_FILE>>
                 ELSE Rejected("Manage Meetings")

\* ------------------------------------------------------------------------
\* ui/pages/attendance.py
\* ------------------------------------------------------------------------
\* variant: every record of the ledger is removed
remove_existing_all_dates(attendance_df, selected_date) == <<>>

\* line 126: remove all existing attendance records for this date
remove_existing(attendance_df, selected_date) ==
  SelectSeq(attendance_df, LAMBDA row : row.Meeting_Date # selected_date)

\* variant: the records of the scouts left unselected are dropped for every
\* meeting, not only for the selected one
SaveAttendance_drops_absent(selected_idx, selected_scouts) ==
  LET roster_df == load_roster
      meetings_df == load_meetings
      attendance_df == load_attendance
  IN /\ meetings_df # <<>>
     /\ roster_df # <<>>
     /\ selected_idx \in DOMAIN meetings_df
     /\ selected_scouts \subseteq DOMAIN roster_df
     /\ LET selected_date == meetings_df[selected_idx].Meeting_Date
            present == Range(PickRows(roster_df, selected_scouts))
            kept == SelectSeq(attendance_df, LAMBDA row :
                      row.Meeting_Date # selected_date /\ row.Scout_Name \in present)
            names == PickRows(roster_df, selected_scouts)
            new_attendance == [n \in DOMAIN names |->
                                [Meeting_Date |-> selected_date, Scout_Name |-> names[n]]]
        IN /\ ATTENDANCE_FILE' = save_attendance(kept \o new_attendance)
           /\ cache' = clear_cache(cache_after_loads(PageLoads("Log Attendance")))
           /\ UNCHANGED <<ROSTER_FILE, REQUIREMENT_KEY_FILE, MEETINGS_FILE, session_state>>

\* lines 18-142; selected_idx is the position of the chosen option,
\* selected_scouts the chosen positions of the roster.  The multiselect is
\* taken to show its form also when a current attendee is no longer an
\* option of the roster; a Streamlit that refuses such a default only takes
\* steps away from this handler.
SaveAttendance(selected_idx, selected_scouts) ==
  LET roster_df == load_roster
      meetings_df == load_meetings
      attendance_df == load_attendance
  IN /\ meetings_df # <<>>
     /\ roster_df # <<>>
     /\ selected_idx \in DOMAIN meetings_df
     /\ selected_scouts \subseteq DOMAIN roster_df
     /\ LET selected_date == meetings_df[selected_idx].Meeting_Date
            kept == remove_existing(attendance_df, selected_date)
            names == PickRows(roster_df, selected_scouts)
            new_attendance == [n \in DOMAIN names |->
                                [Meeting_Date |-> selected_date, Scout_Name |-> names[n]]]
        IN /\ ATTENDANCE_FILE' = save_attendance(kept \o new_attendance)
           /\ cache' = clear_cache(cache_after_loads(PageLoads("Log Attendance")))
           /\ UNCHANGED <<ROSTER_FILE, REQUIREMENT_KEY_FILE, MEETINGS_FILE, session_state>>

\* ------------------------------------------------------------------------
\* ui/pages/onboarding.py and ui/app.py: the first-run wizard.  A key of
\* st.session_state is <<>> while it is not set and <<value>> once it is.
\* ------------------------------------------------------------------------
\* lines 19-28
is_first_run ==
  LET roster_df == load_roster
      requirement_key == load_requirement_key
  IN Len(roster_df) = 0 /\ Len(requirement_key) = Len(LION_REQUIREMENTS)

\* line 73: rank_option.split()[0]
split_first(rank_option) ==
  CASE rank_option = "Lion (Kindergarten)" -> "Lion"
    [] rank_option = "Tiger (1st Grade)" -> "Tiger"

\* lines 94-102: rank_requirements_map.get(rank, LION_REQUIREMENTS)
requirements_data(rank) ==
  LET rank_requirements_map ==
        [key \in {"Lion", "Tiger"} |->
          IF key = "Lion" THEN LION_REQUIREMENTS ELSE TIGER_REQUIREMENTS]
  IN IF rank \in DOMAIN rank_requirements_map
       THEN rank_requirements_map[rank] ELSE LION_REQUIREMENTS

\* the cache after a save and the rerun that follows it, in which the
\* loaders in `called` read the files as saved
cache_after_rerun(called, roster_file) ==
  [l \in Loaders |->
    IF l \notin called THEN <<>>
    ELSE IF l = "load_roster" THEN <<parse_roster(roster_file)>> ELSE <<read_file(l)>>]

\* app.py 36-43 and onboarding.py 33-38: the first script run of a session
\* sets onboarding_complete and shows step 1 of the wizard or the first page
\* of the navigation.  selected_rank starts as Python's None, written "None",
\* which is no key of rank_requirements_map.
OpenApp ==
  /\ session_state.onboarding_complete = <<>>
  /\ IF is_first_run
       THEN /\ session_state' = [session_state EXCEPT !.onboarding_complete = <<FALSE>>,
                                                      !.onboarding_step = <<1>>,
                                                      !.selected_rank = <<"None">>]
            /\ cache' = cache_after_loads({"load_roster", "load_requirement_key"})
       ELSE /\ session_state' = [session_state EXCEPT !.onboarding_complete = <<TRUE>>,
                                                      !.navigation = <<"Manage Roster">>]
            /\ cache' = cache_after_loads({"load_roster", "load_requirement_key"}
                                          \cup PageLoads("Manage Roster"))
  /\ UNCHANGED files

\* app.py 41-43: the wizard is shown, at the given step
onboarding_at(step) ==
  /\ session_state.onboarding_complete = <<FALSE>>
  /\ session_state.onboarding_step = <<step>>

\* lines 72-75: the Continue button of step 1, and lines 86-104: step 2 as
\* the rerun shows it, which saves the list of the rank
ContinueWithRank(rank_option) ==
  /\ onboarding_at(1)
  /\ session_state' = [session_state EXCEPT !.selected_rank = <<split_first(rank_option)>>,
                                            !.onboarding_step = <<2>>]
  /\ REQUIREMENT_KEY_FILE' = save_requirements(requirements_data(split_first(rank_option)))
  /\ cache' = clear_cache(cache)
  /\ UNCHANGED <<ROSTER_FILE, MEETINGS_FILE, ATTENDANCE_FILE>>

\* lines 86-108: step 2 runs again, saving the list, and its button leads to
\* step 3, which loads the roster
ContinueToRosterSetup ==
  /\ onboarding_at(2)
  /\ REQUIREMENT_KEY_FILE' = save_requirements(requirements_data(session_state.selected_rank[1]))
  /\ session_state' = [session_state EXCEPT !.onboarding_step = <<3>>]
  /\ cache' = cache_after_rerun({"load_roster"}, ROSTER_FILE)
  /\ UNCHANGED <<ROSTER_FILE, MEETINGS_FILE, ATTENDANCE_FILE>>

\* lines 119-145: the Add Scout button of step 3
OnboardingAddScout(scout_name) ==
  /\ onboarding_at(3)
  /\ LET roster_df == load_roster
     IN IF ~str_strip_blank(scout_name) /\ scout_name \notin Range(roster_df)
          THEN /\ ROSTER_FILE' = save_roster(Append(roster_df, scout_name))
               /\ cache' = cache_after_rerun({"load_roster"},
                                             save_roster(Append(roster_df, scout_name)))
          ELSE /\ cache' = cache_after_loads({"load_roster"})
               /\ UNCHANGED ROSTER_FILE
  /\ UNCHANGED <<REQUIREMENT_KEY_FILE, MEETINGS_FILE, ATTENDANCE_FILE, session_state>>

\* variant: Done completes the wizard whatever the roster holds
OnboardingDone_any_roster ==
  /\ onboarding_at(3)
  /\ session_state' = [session_state EXCEPT !.onboarding_complete = <<TRUE>>,
                                            !.onboarding_step = <<4>>,
                                            !.navigation = <<"Manage Roster">>]
  /\ cache' = cache_after_loads({"load_roster"} \cup PageLoads("Manage Roster"))
  /\ UNCHANGED files

\* lines 147-153: the Done button of step 3, and app.py 49-66: the first
\* page of the navigation as the rerun shows it.  (Step 4, lines 156-178, is
\* never shown: onboarding_complete is true as soon as the step is 4.)
OnboardingDone ==
  /\ onboarding_at(3)
  /\ IF Len(load_roster) = 0
       THEN /\ cache' = cache_after_loads({"load_roster"})
            /\ UNCHANGED session_state
       ELSE /\ session_state' = [session_state EXCEPT !.onboarding_complete = <<TRUE>>,
                                                      !.onboarding_step = <<4>>,
                                                      !.navigation = <<"Manage Roster">>]
            /\ cache' = cache_after_loads({"load_roster"} \cup PageLoads("Manage Roster"))
  /\ UNCHANGED files

\* app.py 49-81: a choice in the sidebar radio, whose key is "navigation"
Navigate(page) ==
  /\ session_state.onboarding_complete = <<TRUE>>
  /\ session_state' = [session_state EXCEPT !.navigation = <<page>>]
  /\ cache' = cache_after_loads(PageLoads(page))
  /\ UNCHANGED files

\* app.py 41-81: the page is the one shown
OnPage(page) ==
  /\ session_state.onboarding_complete = <<TRUE>>
  /\ session_state.navigation = <<page>>

\* the browser is reloaded: a new session, with no key set
NewSession ==
  /\ session_state' = [confirm_delete |-> <<>>, confirm_load_rank |-> FALSE,
                       confirm_reset |-> FALSE, confirm_clear |-> FALSE,
                       onboarding_complete |-> <<>>, onboarding_step |-> <<>>,
                       selected_rank |-> <<>>, navigation |-> <<>>]
  /\ UNCHANGED <<files, cache>>

\* ------------------------------------------------------------------------
\* Specifications.  The handlers are the same in each; they differ in the
\* inputs the user (or the caller of scout_tracker.data) supplies.
\* ------------------------------------------------------------------------
\* what the den leader types for a requirement ID: the adventure and the
\* description the rank's list gives it
AdventureOf(id) == IF id = "Bobcat.1" THEN "Bobcat" ELSE "Build It Up, Knock It Down"
DescriptionOf(id) ==
  IF id = "Bobcat.1" THEN "1. Get to know the members of your den"
  ELSE "1. With your Lion adult partner, build a structure"

\* Spec: a den leader's session with two scouts; every form is filled in
\* so that it is accepted; the dashboard is the page that is looked at
Next ==
  \/ \E page \in {"Tracker Dashboard", "Meeting Reports"} : Render(page)
  \/ \E name \in Scouts : name \notin Range(load_roster) /\ AddScout(name)
  \/ \E name \in Scouts : RemoveScout(name)
  \/ \E id \in ReqIds :
       /\ id \notin {load_requirement_key[i].Req_ID : i \in DOMAIN load_requirement_key}
       /\ AddRequirement(id, AdventureOf(id), DescriptionOf(id), id = "Bobcat.1")
  \/ \E id \in ReqIds : DeleteRequirement(id)
  \/ \E d \in Days, title \in Titles, sel \in SUBSET (DOMAIN load_requirement_key) \ {{}} :
       /\ d \notin meeting_dates(load_meetings)
       /\ AddMeeting(d, title, sel, FALSE)
  \/ \E sd \in Days, d \in Days, title \in Titles, sel \in SUBSET (DOMAIN load_requirement_key) \ {{}} :
       /\ d = sd \/ d \notin meeting_dates(load_meetings)
       /\ UpdateMeeting(sd, d, title, sel, FALSE)
  \/ \E sd \in Days : DeleteMeeting(sd)
  \/ \E idx \in DOMAIN load_meetings, sel \in SUBSET (DOMAIN load_roster) :
       SaveAttendance(idx, sel)

Spec == Init /\ [][Next]_vars

\* SpecPages: a den of one scout; every page is visited and every form is
\* also submitted with input that its validation rejects
PagesNext ==
  \/ \E page \in Pages : Render(page)
  \/ \E name \in {"amy", ""} : AddScout(name)
  \/ \E name \in {"amy"} : RemoveScout(name)
  \/ \E id \in ReqIds \cup {""} :
       AddRequirement(id, AdventureOf(id), DescriptionOf(id), id = "Bobcat.1")
  \/ \E id \in ReqIds : DeleteRequirement(id)
  \/ \E d \in Days, title \in Titles \cup {""}, sel \in SUBSET (DOMAIN load_requirement_key) :
       AddMeeting(d, title, sel, FALSE)
  \/ \E sd \in Days, d \in Days, title \in Titles \cup {""}, sel \in SUBSET (DOMAIN load_requirement_key) :
       UpdateMeeting(sd, d, title, sel, FALSE)
  \/ \E sd \in Days : DeleteMeeting(sd)
  \/ \E idx \in DOMAIN load_meetings, sel \in SUBSET (DOMAIN load_roster) : SaveAttendance(idx, sel)

SpecPages == Init /\ [][PagesNext]_vars

\* SpecApi: a caller of scout_tracker.data that loads and saves frames of its
\* own making, among them meetings whose coverage cell is null or blank and
\* meetings that share a date
ApiRosters == {<<>>, <<"amy">>}
ApiRequirements == {LION_REQUIREMENTS, <<LION_REQUIREMENTS[1]>>}
ApiCoverage == {NaN, BlankText, Str(<<"Bobcat.1">>)}
ApiMeetingRows ==
  [Meeting_Date : {to_datetime(d) : d \in Days}, Meeting_Title : Titles,
   Req_IDs_Covered : ApiCoverage, Optional : {FALSE}]
ApiAttendanceRows ==
  [Meeting_Date : {to_datetime(d) + t : d \in Days, t \in {0, 1}}, Scout_Name : {"amy"}]
Frames(rows) == UNION {[1..n -> rows] : n \in 0..MaxApiRows}

CallLoader(loader) ==
  /\ cache' = cache_after_loads({loader})
  /\ UNCHANGED <<files, session_state>>

CallSaveRoster(df) ==
  /\ ROSTER_FILE' = save_roster(df)
  /\ cache' = clear_cache(cache)
  /\ UNCHANGED <<REQUIREMENT_KEY_FILE, MEETINGS_FILE, ATTENDANCE_FILE, session_state>>

CallSaveRequirements(df) ==
  /\ REQUIREMENT_KEY_FILE' = save_requirements(df)
  /\ cache' = clear_cache(cache)
  /\ UNCHANGED <<ROSTER_FILE, MEETINGS_FILE, ATTENDANCE_FILE, session_state>>

CallSaveMeetings(df) ==
  /\ MEETINGS_FILE' = save_meetings(df)
  /\ cache' = clear_cache(cache)
  /\ UNCHANGED <<ROSTER_FILE, REQUIREMENT_KEY_FILE, ATTENDANCE_FILE, session_state>>

CallSaveAttendance(df) ==
  /\ ATTENDANCE_FILE' = save_attendance(df)
  /\ cache' = clear_cache(cache)
  /\ UNCHANGED <<ROSTER_FILE, REQUIREMENT_KEY_FILE, MEETINGS_FILE, session_state>>

ApiNext ==
  \/ \E loader \in Loaders : CallLoader(loader)
  \/ \E df \in ApiRosters : CallSaveRoster(df)
  \/ \E df \in ApiRequirements : CallSaveRequirements(df)
  \/ \E df \in Frames(ApiMeetingRows) : CallSaveMeetings(df)
  \/ \E df \in Frames(ApiAttendanceRows) : CallSaveAttendance(df)

SpecApi == Init /\ [][ApiNext]_vars

\* SpecSameDate: a caller of scout_tracker.data that saves meeting frames in
\* which several meetings may be held on one day, each covering nothing or
\* one requirement of the default list, and attendance frames for those days
SameDateMeetingRows ==
  [Meeting_Date : {to_datetime(d) : d \in Days}, Meeting_Title : Titles,
   Req_IDs_Covered : {BlankText, Str(<<"Bobcat.1">>), Str(<<"BuildItUp.1">>)},
   Optional : {FALSE}]
SameDateAttendanceRows ==
  [Meeting_Date : {to_datetime(d) : d \in Days}, Scout_Name : {"amy"}]

SameDateNext ==
  \/ \E loader \in Loaders : CallLoader(loader)
  \/ \E df \in ApiRosters : CallSaveRoster(df)
  \/ \E df \in Frames(SameDateMeetingRows) : CallSaveMeetings(df)
  \/ \E df \in Frames(SameDateAttendanceRows) : CallSaveAttendance(df)

SpecSameDate == Init /\ [][SameDateNext]_vars

\* SpecOnboarding: sessions of main().  A session opens the app, goes through
\* the wizard if is_first_run() says so, then manages the roster and the
\* requirements; the browser may be reloaded at any time.
OnboardingNext ==
  \/ OpenApp
  \/ \E rank_option \in DOMAIN RANK_REQUIREMENTS : ContinueWithRank(rank_option)
  \/ ContinueToRosterSetup
  \/ \E name \in {"amy", ""} : OnboardingAddScout(name)
  \/ OnboardingDone
  \/ \E page \in {"Manage Roster", "Manage Requirements"} : Navigate(page)
  \/ OnPage("Manage Roster") /\ \E name \in {"amy"} : AddScout(name)
  \/ OnPage("Manage Roster") /\ \E name \in {"amy"} : RemoveScout(name)
  \/ OnPage("Manage Requirements") /\ \E n \in DOMAIN load_requirement_key :
       LET row == load_requirement_key[n]
       IN EditRequirement(row.Req_ID, row.Adventure, row.Requirement_Description, ~row.Required)
  \/ OnPage("Manage Requirements") /\ \E n \in DOMAIN load_requirement_key :
       DeleteRequirement(load_requirement_key[n].Req_ID)
  \/ NewSession

SpecOnboarding == Init /\ [][OnboardingNext]_vars

\* SpecRank: a den of two scouts.  The leader imports a list of one required
\* adventure of two requirements and three elective adventures, flips the
\* Required tag of single requirements, deletes requirements, holds one
\* meeting and looks at the dashboard and at the planning page.
UploadedRankFile ==
  << [Req_ID |-> "Bobcat.1", Adventure |-> "Bobcat",
      Requirement_Description |-> "1. Get to know the members of your den",
      Required |-> TRUE],
     [Req_ID |-> "Bobcat.2", Adventure |-> "Bobcat",
      Requirement_Description |-> "2. Have your Lion adult partner or den leader read the Scout Law to you",
      Required |-> TRUE],
     [Req_ID |-> "BuildItUp.1", Adventure |-> "Build It Up, Knock It Down",
      Requirement_Description |-> "1. With your Lion adult partner, build a structure",
      Required |-> FALSE],
     [Req_ID |-> "ChampionsNature.1", Adventure |-> "Champions for Nature",
      Requirement_Description |->
        "1. Discover the difference between natural resources and man-made items",
      Required |-> FALSE],
     [Req_ID |-> "CountOnMe.1", Adventure |-> "Count On Me",
      Requirement_Description |-> "1. Make a Lion using only squares, triangles, and circles",
      Required |-> FALSE] >>

RankNext ==
  \/ \E page \in {"Tracker Dashboard", "Plan Meetings"} : Render(page)
  \/ \E name \in Scouts : AddScout(name)
  \/ ImportRequirements(UploadedRankFile, "Replace All (clear existing)")
  \/ \E n \in DOMAIN load_requirement_key :
       LET row == load_requirement_key[n]
       IN EditRequirement(row.Req_ID, row.Adventure, row.Requirement_Description, ~row.Required)
  \/ \E n \in DOMAIN load_requirement_key : DeleteRequirement(load_requirement_key[n].Req_ID)
  \/ \E title \in Titles, sel \in SUBSET (DOMAIN load_requirement_key) \ {{}} :
       /\ 1 \notin meeting_dates(load_meetings)
       /\ AddMeeting(1, title, sel, FALSE)
  \/ \E idx \in DOMAIN load_meetings, sel \in SUBSET (DOMAIN load_roster) :
       SaveAttendance(idx, sel)

SpecRank == Init /\ [][RankNext]_vars

\* SpecReport: a den of one scout whose leader marks meetings as optional
\* when adding or editing them, deletes and re-adds requirements, logs
\* attendance and opens the reports page
ReportNext ==
  \/ Render("Individual Reports")
  \/ AddScout("amy")
  \/ \E id \in ReqIds :
       /\ id \notin {load_requirement_key[i].Req_ID : i \in DOMAIN load_requirement_key}
       /\ AddRequirement(id, AdventureOf(id), DescriptionOf(id), id = "Bobcat.1")
  \/ \E id \in ReqIds : DeleteRequirement(id)
  \/ \E d \in Days, title \in Titles, sel \in SUBSET (DOMAIN load_requirement_key) \ {{}},
        optional \in BOOLEAN :
       /\ d \notin meeting_dates(load_meetings)
       /\ AddMeeting(d, title, sel, optional)
  \/ \E sd \in Days, title \in Titles, sel \in SUBSET (DOMAIN load_requirement_key) \ {{}},
        optional \in BOOLEAN :
       UpdateMeeting(sd, sd, title, sel, optional)
  \/ \E idx \in DOMAIN load_meetings, sel \in SUBSET (DOMAIN load_roster) :
       SaveAttendance(idx, sel)

SpecReport == Init /\ [][ReportNext]_vars

\* SpecCatalog: the leader works on the Manage Requirements page alone and
\* uses every one of its operations; the CSV files that are uploaded are the
\* exported default list and a list in which one new requirement stands twice
UploadedFiles ==
  { LION_REQUIREMENTS,
    << [Req_ID |-> "CountOnMe.1", Adventure |-> "Count On Me",
        Requirement_Description |-> "1. Make a Lion using only squares, triangles, and circles",
        Required |-> FALSE],
       [Req_ID |-> "CountOnMe.1", Adventure |-> "Count On Me",
        Requirement_Description |-> "1. Make a Lion using only squares, triangles, and circles",
        Required |-> FALSE] >> }
ImportModes == {"Replace All (clear existing)", "Add New (keep existing)"}

CatalogNext ==
  \/ Render("Manage Requirements")
  \/ \E id \in ReqIds \cup {""} :
       AddRequirement(id, AdventureOf(id), DescriptionOf(id), id = "Bobcat.1")
  \/ \E n \in DOMAIN load_requirement_key :
       LET row == load_requirement_key[n]
       IN EditRequirement(row.Req_ID, row.Adventure, row.Requirement_Description, ~row.Required)
  \/ \E n \in DOMAIN load_requirement_key : DeleteRequirement(load_requirement_key[n].Req_ID)
  \/ \E uploaded_file \in UploadedFiles, import_mode \in ImportModes :
       ImportRequirements(uploaded_file, import_mode)
  \/ \E selected_rank \in DOMAIN RANK_REQUIREMENTS : LoadRank(selected_rank)
  \/ ResetToDefaults
  \/ ClearAllRequirements

SpecCatalog == Init /\ [][CatalogNext]_vars

\* ------------------------------------------------------------------------
\* Vocabulary of the properties: the four relations as persisted, and the
\* entry of the matrix for a scout and a requirement
\* ------------------------------------------------------------------------
RosterScouts == Range(ROSTER_FILE)
CatalogIds == {REQUIREMENT_KEY_FILE[i].Req_ID : i \in DOMAIN REQUIREMENT_KEY_FILE}
Covered(meeting) == Range(meeting.Req_IDs_Covered.parts)
Attended(scout, date) ==
  \E j \in DOMAIN ATTENDANCE_FILE :
    ATTENDANCE_FILE[j] = [Meeting_Date |-> date, Scout_Name |-> scout]
Completion(scout, req) == <<scout, req>> \in master_tracker.true

\* C1: in every state reached by roster, requirement, meeting and attendance
\* mutations, for every roster scout s and catalog requirement r the matrix
\* entry is true exactly when some meeting in the catalog covers r and the
\* ledger holds a record (that meeting's date, s).
C1_CompletionIffAttendedCoverage ==
  \A s \in RosterScouts, r \in CatalogIds :
    Completion(s, r) <=>
      \E i \in DOMAIN MEETINGS_FILE :
        /\ r \in Covered(MEETINGS_FILE[i])
        /\ Attended(s, MEETINGS_FILE[i].Meeting_Date)

\* a rendered dashboard whose matrix has a true and a false entry for a
\* scout with two attendance records
C1_Witness ==
  /\ cache["load_attendance"] # <<>>
  /\ \E s \in RosterScouts, r1 \in CatalogIds, r2 \in CatalogIds :
       /\ Completion(s, r1) /\ ~Completion(s, r2)
       /\ Cardinality({j \in DOMAIN ATTENDANCE_FILE : ATTENDANCE_FILE[j].Scout_Name = s}) = 2

\* C2: when saving a meeting's attendance removes scout s from meeting M1,
\* every requirement that M1 shares with another meeting s attended stays
\* true for s, and a requirement of M1 is true for s afterwards exactly when
\* a meeting s is still recorded at covers it.
C2_MultiSourcePreserved ==
  [][ATTENDANCE_FILE' # ATTENDANCE_FILE =>
       \A idx \in DOMAIN MEETINGS_FILE, X \in SUBSET (DOMAIN ROSTER_FILE) :
         SaveAttendance(idx, X) =>
           LET after == master_tracker_next.true
               m1 == MEETINGS_FILE[idx]
           IN \A s \in RosterScouts :
                (Attended(s, m1.Meeting_Date) /\ ~Attended(s, m1.Meeting_Date)') =>
                  /\ \A i2 \in DOMAIN MEETINGS_FILE, r \in CatalogIds :
                       ( /\ i2 # idx
                         /\ r \in Covered(m1)
                         /\ r \in Covered(MEETINGS_FILE[i2])
                         /\ Attended(s, MEETINGS_FILE[i2].Meeting_Date) )
                       => <<s, r>> \in after
                  /\ \A r1 \in Covered(m1) \cap CatalogIds :
                       <<s, r1>> \in after <=>
                         \E i2 \in DOMAIN MEETINGS_FILE :
                           /\ r1 \in Covered(MEETINGS_FILE[i2])
                           /\ Attended(s, MEETINGS_FILE[i2].Meeting_Date)'
    ]_vars

\* s is recorded at M2 and no longer at M1; the requirement both cover is
\* still true, the one only M1 covers is false
C2_Witness ==
  \E s \in RosterScouts, i1 \in DOMAIN MEETINGS_FILE, i2 \in DOMAIN MEETINGS_FILE,
     r \in CatalogIds, r1 \in CatalogIds :
    /\ i1 # i2
    /\ r \in Covered(MEETINGS_FILE[i1]) /\ r \in Covered(MEETINGS_FILE[i2])
    /\ r1 \in Covered(MEETINGS_FILE[i1]) /\ r1 \notin Covered(MEETINGS_FILE[i2])
    /\ ~Attended(s, MEETINGS_FILE[i1].Meeting_Date)
    /\ Attended(s, MEETINGS_FILE[i2].Meeting_Date)
    /\ Completion(s, r) /\ ~Completion(s, r1)

\* C3: an accepted Update Meeting that keeps the date of meeting M gives
\* every scout recorded at M exactly the new coverage plus what the other
\* meetings the scout attended cover, and leaves the rows of the scouts not
\* recorded at M as they were.
C3_UpdateCoverageRetroactive ==
  [][UNCHANGED <<ROSTER_FILE, REQUIREMENT_KEY_FILE, ATTENDANCE_FILE, session_state>> =>
       \A sd \in Days, title \in Titles, sel \in SUBSET (DOMAIN REQUIREMENT_KEY_FILE) \ {{}},
          opt \in BOOLEAN :
         UpdateMeeting(sd, sd, title, sel, opt) =>
           LET before == master_tracker.true
               after == master_tracker_next.true
           IN \A s \in RosterScouts, r \in CatalogIds :
                IF Attended(s, sd)
                  THEN <<s, r>> \in after <=>
                         \/ r \in {REQUIREMENT_KEY_FILE[i].Req_ID : i \in sel}
                         \/ \E i2 \in DOMAIN MEETINGS_FILE :
                              /\ MEETINGS_FILE[i2].Meeting_Date # sd
                              /\ r \in Covered(MEETINGS_FILE[i2])
                              /\ Attended(s, MEETINGS_FILE[i2].Meeting_Date)
                  ELSE <<s, r>> \in after <=> <<s, r>> \in before
    ]_vars

\* meeting M has an attendee and a roster scout who was not there but
\* attended another meeting; the attendee holds M's coverage, the other
\* scout a requirement M does not cover
C3_Witness ==
  \E s \in RosterScouts, t \in RosterScouts, i1 \in DOMAIN MEETINGS_FILE,
     i2 \in DOMAIN MEETINGS_FILE, r \in CatalogIds, r2 \in CatalogIds :
    /\ s # t /\ i1 # i2
    /\ Attended(s, MEETINGS_FILE[i1].Meeting_Date)
    /\ ~Attended(t, MEETINGS_FILE[i1].Meeting_Date)
    /\ Attended(t, MEETINGS_FILE[i2].Meeting_Date)
    /\ Covered(MEETINGS_FILE[i1]) = {r} /\ Covered(MEETINGS_FILE[i2]) = {r2} /\ r # r2
    /\ Completion(s, r) /\ Completion(t, r2) /\ ~Completion(t, r)

\* C4: whatever has been saved and loaded, the next call of each of the four
\* loaders returns what its file now holds: no loader answers from a memo
\* taken before a later write, to its own relation or to another.
C4_LoadersReturnPersisted ==
  \A loader \in Loaders : cache_data(loader) = read_file(loader)

\* the roster was loaded after the last write; the meetings file has been
\* written and its loader, memoised or not, has nothing to answer from
C4_Witness ==
  /\ cache["load_roster"] # <<>> /\ cache["load_roster"][1] # <<>>
  /\ cache["load_meetings"] = <<>> /\ Len(MEETINGS_FILE) = 2
  /\ cache["load_attendance"] # <<>> /\ ATTENDANCE_FILE # <<>>

UniqueDates(meetings_file) ==
  \A i \in DOMAIN meetings_file, j \in DOMAIN meetings_file :
    i # j => meetings_file[i].Meeting_Date # meetings_file[j].Meeting_Date

\* C5: a step of the pages leads from a meeting catalog with unique dates to
\* one with unique dates; a step that changes the catalog is neither an Add
\* Meeting whose date is that of an existing meeting nor an Update Meeting
\* that moves a meeting to the date of another one: those are rejected.
C5_UniqueMeetingDates ==
  [][ /\ UniqueDates(MEETINGS_FILE) => UniqueDates(MEETINGS_FILE')
      /\ MEETINGS_FILE' # MEETINGS_FILE =>
           \A d \in Days, title \in Titles \cup {""},
              sel \in SUBSET (DOMAIN REQUIREMENT_KEY_FILE) :
             (\E i \in DOMAIN MEETINGS_FILE : MEETINGS_FILE[i].Meeting_Date = d) =>
               /\ ~AddMeeting(d, title, sel, FALSE)
               /\ \A sd \in Days \ {d} : ~UpdateMeeting(sd, d, title, sel, FALSE)
    ]_vars

\* two meetings on different dates, so that an add and a date change can
\* collide, and the page has loaded them
C5_Witness ==
  /\ Len(MEETINGS_FILE) >= 2
  /\ UniqueDates(MEETINGS_FILE)
  /\ cache["load_meetings"] # <<>>

\* C6: Remove Scout takes the scout out of the roster and leaves the three
\* other relations as they were, the scout's attendance records included;
\* the ledger changes only by a save on the Log Attendance page.
C6_RemoveScoutOnlyRoster ==
  [][ /\ \A name \in Scouts :
           RemoveScout(name) =>
             /\ name \notin Range(ROSTER_FILE')
             /\ UNCHANGED <<REQUIREMENT_KEY_FILE, MEETINGS_FILE, ATTENDANCE_FILE>>
             /\ \A j \in DOMAIN ATTENDANCE_FILE :
                  ATTENDANCE_FILE[j].Scout_Name = name =>
                    /\ j \in DOMAIN ATTENDANCE_FILE'
                    /\ ATTENDANCE_FILE'[j] = ATTENDANCE_FILE[j]
      /\ ATTENDANCE_FILE' # ATTENDANCE_FILE =>
           \E idx \in DOMAIN MEETINGS_FILE, X \in SUBSET (DOMAIN ROSTER_FILE) :
             SaveAttendance(idx, X)
    ]_vars

\* an attendance record names a scout who is no longer in the roster
C6_Witness ==
  \E j \in DOMAIN ATTENDANCE_FILE :
    /\ ATTENDANCE_FILE[j].Scout_Name \notin RosterScouts
    /\ \E i \in DOMAIN MEETINGS_FILE :
         MEETINGS_FILE[i].Meeting_Date = ATTENDANCE_FILE[j].Meeting_Date

\* C7: a step that leaves roster, requirement key and meetings as they were
\* and only adds records to the ledger keeps every true entry of the matrix.
C7_AddingAttendanceMonotone ==
  [][ ( /\ UNCHANGED <<ROSTER_FILE, REQUIREMENT_KEY_FILE, MEETINGS_FILE>>
        /\ Range(ATTENDANCE_FILE) \subseteq Range(ATTENDANCE_FILE')
        /\ Range(ATTENDANCE_FILE) # Range(ATTENDANCE_FILE') )
      => master_tracker.true \subseteq master_tracker_next.true
    ]_vars

\* a scout holds two requirements that no single meeting covers: the entry
\* earned at the first meeting survived the record of the second
C7_Witness ==
  \E s \in RosterScouts, r1 \in CatalogIds, r2 \in CatalogIds :
    /\ r1 # r2
    /\ Completion(s, r1) /\ Completion(s, r2)
    /\ \A i \in DOMAIN MEETINGS_FILE : ~({r1, r2} \subseteq Covered(MEETINGS_FILE[i]))

\* the attendance records whose scout is in the roster and whose date is
\* that of a meeting
KnownRecords ==
  SelectSeq(ATTENDANCE_FILE, LAMBDA row :
    /\ row.Scout_Name \in RosterScouts
    /\ \E i \in DOMAIN MEETINGS_FILE : MEETINGS_FILE[i].Meeting_Date = row.Meeting_Date)

\* C8: the build raises nothing, the rows of the matrix are the roster and
\* its columns the catalog, and the matrix is the one the ledger without the
\* records of unknown scouts and unknown dates gives.
C8_OrphanRecordsSkipped ==
  /\ ~master_tracker.raised
  /\ master_tracker.index = RosterScouts
  /\ master_tracker.columns = CatalogIds
  /\ master_tracker =
       build_master_tracker(parse_roster(ROSTER_FILE),
                            parse_requirement_key(REQUIREMENT_KEY_FILE),
                            parse_meetings(MEETINGS_FILE),
                            parse_attendance(KnownRecords))

\* the ledger holds a record of a removed scout and a record for a date
\* that has no meeting, next to a record that earns a roster scout an entry
C8_Witness ==
  /\ \E j \in DOMAIN ATTENDANCE_FILE : ATTENDANCE_FILE[j].Scout_Name \notin RosterScouts
  /\ \E j \in DOMAIN ATTENDANCE_FILE :
       \A i \in DOMAIN MEETINGS_FILE :
         MEETINGS_FILE[i].Meeting_Date # ATTENDANCE_FILE[j].Meeting_Date
  /\ master_tracker.true # {}
  /\ cache["load_attendance"] # <<>>

\* C9: the build raises nothing and the columns of the matrix are the
\* catalog, whatever IDs the meetings list; an ID that is in the catalog and
\* in the coverage of a meeting is true for every roster scout recorded at
\* the meeting, also when the meeting lists IDs that are not in the catalog.
C9_StaleIdsIgnored ==
  /\ ~master_tracker.raised
  /\ master_tracker.columns = CatalogIds
  /\ \A cell \in master_tracker.true : cell[2] \in CatalogIds
  /\ \A i \in DOMAIN MEETINGS_FILE, s \in RosterScouts :
       Attended(s, MEETINGS_FILE[i].Meeting_Date) =>
         \A r \in Covered(MEETINGS_FILE[i]) \cap CatalogIds : Completion(s, r)

\* a meeting lists an ID that left the catalog and one that is in it, a
\* roster scout was there and holds the latter
C9_Witness ==
  \E i \in DOMAIN MEETINGS_FILE, s \in RosterScouts, r \in CatalogIds :
    /\ Covered(MEETINGS_FILE[i]) \ CatalogIds # {}
    /\ r \in Covered(MEETINGS_FILE[i])
    /\ Attended(s, MEETINGS_FILE[i].Meeting_Date)
    /\ Completion(s, r)

\* the ledger without the records for one date
RecordsNotOn(date) ==
  SelectSeq(ATTENDANCE_FILE, LAMBDA row : row.Meeting_Date # date)

CatalogAdventures == {REQUIREMENT_KEY_FILE[i].Adventure : i \in DOMAIN REQUIREMENT_KEY_FILE}
RequirementsOf(adventure) ==
  {REQUIREMENT_KEY_FILE[i].Req_ID :
     i \in {k \in DOMAIN REQUIREMENT_KEY_FILE : REQUIREMENT_KEY_FILE[k].Adventure = adventure}}
TaggedRequired(adventure) ==
  \E i \in DOMAIN REQUIREMENT_KEY_FILE :
    REQUIREMENT_KEY_FILE[i].Adventure = adventure /\ REQUIREMENT_KEY_FILE[i].Required
TaggedElective(adventure) ==
  \E i \in DOMAIN REQUIREMENT_KEY_FILE :
    REQUIREMENT_KEY_FILE[i].Adventure = adventure /\ ~REQUIREMENT_KEY_FILE[i].Required
FullyComplete(scout, adventure) ==
  /\ RequirementsOf(adventure) # {}
  /\ \A req \in RequirementsOf(adventure) : Completion(scout, req)
DashboardRank(scout) == rank_completion(load_requirement_key, master_tracker, scout)

\* C11: for every roster scout and every catalog, one without a required
\* adventure included, the dashboard reports the rank as earned exactly when
\* every adventure tagged required is fully complete for the scout and at
\* least two adventures tagged elective are fully complete; a third complete
\* elective, or an incomplete one, changes nothing.
C11_RankEarnedIff ==
  \A s \in RosterScouts :
    DashboardRank(s).lion_rank_earned <=>
      /\ \A a \in CatalogAdventures : TaggedRequired(a) => FullyComplete(s, a)
      /\ Cardinality({a \in CatalogAdventures : TaggedElective(a) /\ FullyComplete(s, a)}) >= 2

\* the catalog has no required adventure and three elective ones, the scout
\* has completed all three and the rank is reported as earned
C11_Witness ==
  \E s \in RosterScouts :
    /\ DashboardRank(s).lion_rank_earned
    /\ \A a \in CatalogAdventures : ~TaggedRequired(a)
    /\ Cardinality({a \in CatalogAdventures : TaggedElective(a) /\ FullyComplete(s, a)}) = 3

\* what the Plan Meetings page computes in the current state: the rows of
\* lines 57-78 and the sorted frame of line 83 (the page returns at line 25
\* when the roster is empty)
PlanningData ==
  planning_data(load_requirement_key,
                plan_meetings_tracker(load_roster, load_requirement_key, load_meetings,
                                      load_attendance),
                load_roster)
PlanningReport == planning_df(PlanningData)

\* the names an adventure can go by in the lists of the model, whether or
\* not the catalog still holds a requirement of it
AdventureNames == {UploadedRankFile[i].Adventure : i \in DOMAIN UploadedRankFile}
DashboardProgress(scout, adventure) ==
  adventure_progress(load_requirement_key, master_tracker, scout, adventure)

\* C13: for every roster scout and every adventure, the rollup's completed
\* count is the number of the adventure's requirements that the matrix has
\* true for the scout, its total is the number of the adventure's
\* requirements, its percentage is completed / total * 100 and, for an
\* adventure without requirements, 0 with no division by zero; so
\* 0 <= completed <= total and 0 <= percentage <= 100.
C13_RollupCounts ==
  \A s \in RosterScouts, a \in AdventureNames \cup CatalogAdventures :
    LET rollup == DashboardProgress(s, a)
        pct == rollup.percentage
    IN /\ rollup.completed = Cardinality({r \in RequirementsOf(a) : Completion(s, r)})
       /\ rollup.total = Cardinality(RequirementsOf(a))
       /\ pct.den > 0
       /\ rollup.total > 0 => pct.num * rollup.total = rollup.completed * 100 * pct.den
       /\ rollup.total = 0 => pct.num = 0
       /\ 0 <= rollup.completed /\ rollup.completed <= rollup.total
       /\ 0 <= pct.num /\ pct.num <= 100 * pct.den

\* the scout has one of the two requirements of an adventure, which the
\* rollup reports as 1 of 2 and 50%, and another adventure has lost all its
\* requirements and is reported as 0 of 0 and 0%
C13_Witness ==
  \E s \in RosterScouts, a \in AdventureNames, b \in AdventureNames :
    /\ DashboardProgress(s, a).completed = 1
    /\ DashboardProgress(s, a).total = 2
    /\ DashboardProgress(s, a).percentage = [num |-> 100, den |-> 2]
    /\ DashboardProgress(s, b).total = 0
    /\ DashboardProgress(s, b).percentage = [num |-> 0, den |-> 1]

\* C12: an adventure is on the dashboard's list of required adventures
\* exactly when every requirement of it is tagged Required; after a
\* requirement edit that leaves an adventure with mixed tags, the adventure
\* is not on the required list, and no adventure is on both the required and
\* the elective list.
C12_RequiredIffAllTagged ==
  LET required == Range(required_adventures(load_requirement_key))
      elective == Range(elective_adventures(load_requirement_key))
  IN /\ \A a \in CatalogAdventures : a \in required <=> ~TaggedElective(a)
     /\ required \cap elective = {}

\* C14: for every required requirement of the planning report, the scouts
\* listed as missing are exactly the roster scouts whose matrix entry for
\* the requirement is false; they and the scouts who completed it are
\* disjoint and together the whole roster, the completed count plus the
\* number of missing scouts is the number of scouts, and the percentage is
\* completed / total scouts * 100.
C14_ScoutsMissingPartition ==
  RosterScouts # {} =>
    \A n \in DOMAIN PlanningData :
      LET entry == PlanningData[n]
          missing == Range(entry.Scouts_Missing)
          done == RosterScouts \ missing
          pct == entry.Pct_Complete
      IN /\ missing = {s \in RosterScouts : ~Completion(s, entry.Req_ID)}
         /\ done = {s \in RosterScouts : Completion(s, entry.Req_ID)}
         /\ Len(entry.Scouts_Missing) = Cardinality(missing)
         /\ entry.Completed = Cardinality(done)
         /\ entry.Total_Scouts = Cardinality(RosterScouts)
         /\ entry.Completed + Cardinality(missing) = entry.Total_Scouts
         /\ pct.den > 0
         /\ pct.num * entry.Total_Scouts = entry.Completed * 100 * pct.den

\* a required requirement that one of two scouts has completed: 1 of 2, 50%,
\* the other scout being the only one listed as missing
C14_Witness ==
  /\ Cardinality(RosterScouts) = 2
  /\ \E n \in DOMAIN PlanningData, s \in RosterScouts :
       /\ PlanningData[n].Completed = 1
       /\ PlanningData[n].Pct_Complete = [num |-> 100, den |-> 2]
       /\ PlanningData[n].Scouts_Missing = <<s>>
       /\ ~Completion(s, PlanningData[n].Req_ID)

RequiredIds ==
  {REQUIREMENT_KEY_FILE[i].Req_ID :
     i \in {k \in DOMAIN REQUIREMENT_KEY_FILE : REQUIREMENT_KEY_FILE[k].Required}}

\* C15: whenever the planning page has a roster to report on, its report
\* lists exactly the requirements tagged Required, each once, in ascending
\* order of completion percentage: of two adjacent entries the first has the
\* lower or the same percentage.
C15_PlanningRequiredAscending ==
  RosterScouts # {} =>
    /\ ~PlanningReport.raised
    /\ LET rows == PlanningReport.value
       IN /\ {rows[n].Req_ID : n \in DOMAIN rows} = RequiredIds
          /\ Len(rows) = Cardinality(RequiredIds)
          /\ \A n \in 1..(Len(rows) - 1) :
               rows[n].Pct_Complete.num * rows[n + 1].Pct_Complete.den
                 <= rows[n + 1].Pct_Complete.num * rows[n].Pct_Complete.den

\* ------------------------------------------------------------------------
\* Vocabulary of the report properties: the report made from the frames the
\* loaders return, and the meetings a scout missed according to the files
\* ------------------------------------------------------------------------
ScoutReport(scout) ==
  generate_scout_progress_report(scout, load_roster, load_requirement_key, load_meetings,
                                 load_attendance)
MissedMeetings(scout) ==
  {i \in DOMAIN MEETINGS_FILE :
     ~MEETINGS_FILE[i].Optional /\ ~Attended(scout, MEETINGS_FILE[i].Meeting_Date)}
ReportedDates(scout) ==
  LET info == ScoutReport(scout).missed_meetings_info
  IN {dt_date(info[n].date) : n \in DOMAIN info}

\* C16 as stated: for every roster scout the missed-meetings list holds one
\* entry for each non-optional meeting without an attendance record of the
\* scout and no other entry, whatever the meeting covers.
C16_MissedWhateverCovered ==
  \A s \in RosterScouts :
    /\ ReportedDates(s) = {MEETINGS_FILE[i].Meeting_Date : i \in MissedMeetings(s)}
    /\ Len(ScoutReport(s).missed_meetings_info) = Cardinality(MissedMeetings(s))

\* C16 as amended: for every roster scout the missed-meetings list holds one
\* entry for each non-optional meeting without an attendance record of the
\* scout that covers at least one requirement of the catalog, and no other
\* entry.
C16_MissedCoveringCatalog ==
  \A s \in RosterScouts :
    LET listed == {i \in MissedMeetings(s) : Covered(MEETINGS_FILE[i]) \cap CatalogIds # {}}
    IN /\ ReportedDates(s) = {MEETINGS_FILE[i].Meeting_Date : i \in listed}
       /\ Len(ScoutReport(s).missed_meetings_info) = Cardinality(listed)

\* the scout has missed two non-optional meetings; one covers a requirement
\* of the catalog and is the only one listed, the other covers only a
\* requirement that has since been deleted
C16_Witness ==
  \E s \in RosterScouts, i \in DOMAIN MEETINGS_FILE, k \in DOMAIN MEETINGS_FILE :
    /\ i \in MissedMeetings(s)
    /\ Covered(MEETINGS_FILE[i]) \cap CatalogIds # {}
    /\ k \in MissedMeetings(s)
    /\ Covered(MEETINGS_FILE[k]) \cap CatalogIds = {}
    /\ ReportedDates(s) = {MEETINGS_FILE[i].Meeting_Date}

\* C17: in every state reached by adding meetings, editing their Optional
\* flag and saving attendance, no meeting marked optional is on the
\* missed-meetings list of any scout, whether or not the scout attended it.
C17_OptionalNeverMissed ==
  \A s \in Scouts, i \in DOMAIN MEETINGS_FILE :
    MEETINGS_FILE[i].Optional => MEETINGS_FILE[i].Meeting_Date \notin ReportedDates(s)

\* a roster scout stayed away from an optional meeting that covers a
\* requirement of the catalog and from a non-optional one, and only the
\* second is on the scout's list
C17_Witness ==
  \E s \in RosterScouts, i \in DOMAIN MEETINGS_FILE, k \in DOMAIN MEETINGS_FILE :
    /\ MEETINGS_FILE[i].Optional
    /\ ~Attended(s, MEETINGS_FILE[i].Meeting_Date)
    /\ Covered(MEETINGS_FILE[i]) \cap CatalogIds # {}
    /\ ~MEETINGS_FILE[k].Optional
    /\ ReportedDates(s) = {MEETINGS_FILE[k].Meeting_Date}

\* the row of the meeting an entry of the list is about, and the IDs listed
MeetingOn(date) ==
  MEETINGS_FILE[CHOOSE i \in DOMAIN MEETINGS_FILE : MEETINGS_FILE[i].Meeting_Date = date]
ListedIds(entry) == {entry.requirements[j].req_id : j \in DOMAIN entry.requirements}

\* C18 as stated: for every missed meeting of a scout's report the
\* requirements listed are exactly the covered requirements that the scout
\* has not completed; one the scout earned at another meeting is not listed.
C18_ListedOnlyIncomplete ==
  \A s \in RosterScouts :
    LET info == ScoutReport(s).missed_meetings_info
    IN \A n \in DOMAIN info :
         ListedIds(info[n]) =
           {r \in Covered(MeetingOn(dt_date(info[n].date))) \cap CatalogIds : ~Completion(s, r)}

\* C18 as amended: for every missed meeting of a scout's report the
\* requirements listed are exactly the requirements of the catalog that the
\* meeting covered, each marked as completed elsewhere exactly when the
\* scout has earned it at an attended meeting; the requirements not so
\* marked, the still incomplete ones, are exactly those of the report's list
\* of opportunities.
C18_ListedAllMarkedElsewhere ==
  \A s \in RosterScouts :
    LET info == ScoutReport(s).missed_meetings_info
        opportunities == ScoutReport(s).incomplete_reqs_by_adventure
    IN /\ \A n \in DOMAIN info :
            /\ ListedIds(info[n]) = Covered(MeetingOn(dt_date(info[n].date))) \cap CatalogIds
            /\ \A j \in DOMAIN info[n].requirements :
                 info[n].requirements[j].completed_elsewhere
                   <=> Completion(s, info[n].requirements[j].req_id)
       /\ UNION {opportunities[a] : a \in DOMAIN opportunities} =
            {r \in UNION {ListedIds(info[n]) : n \in DOMAIN info} : ~Completion(s, r)}

\* a missed meeting is listed with one requirement the scout earned at
\* another meeting, marked so, and one the scout still lacks, which alone is
\* an opportunity
C18_Witness ==
  \E s \in RosterScouts :
    LET info == ScoutReport(s).missed_meetings_info
        opportunities == ScoutReport(s).incomplete_reqs_by_adventure
    IN /\ Len(info) = 1
       /\ \E j, k \in DOMAIN info[1].requirements :
            /\ info[1].requirements[j].completed_elsewhere
            /\ Completion(s, info[1].requirements[j].req_id)
            /\ ~info[1].requirements[k].completed_elsewhere
            /\ UNION {opportunities[a] : a \in DOMAIN opportunities}
                 = {info[1].requirements[k].req_id}

\* C20: after any sequence of requirement add, edit, delete, CSV import
\* (Replace All or Add New), load-rank, reset and clear operations, no two
\* rows of the requirement catalog carry the same Req_ID.
C20_ReqIdsUnique ==
  \A i \in DOMAIN REQUIREMENT_KEY_FILE, j \in DOMAIN REQUIREMENT_KEY_FILE :
    REQUIREMENT_KEY_FILE[i].Req_ID = REQUIREMENT_KEY_FILE[j].Req_ID => i = j

\* ------------------------------------------------------------------------
\* Meetings that share a date
\* ------------------------------------------------------------------------
\* no later row of the meeting catalog carries the date of row i
LastOfDate(i) ==
  \A k \in DOMAIN MEETINGS_FILE :
    k > i => MEETINGS_FILE[k].Meeting_Date # MEETINGS_FILE[i].Meeting_Date

\* C21: whatever rows share a date, the lookup holds for each date the
\* coverage of the last row that carries it (an empty cell covers nothing), and a roster scout has a catalog
\* requirement exactly when the scout is recorded on a date whose last row
\* covers it: what only an earlier row of the date covers is not credited.
C21_LastMeetingOfDateWins ==
  LET lookup == meeting_req_lookup(load_meetings)
  IN /\ ~lookup.raised
     /\ ~master_tracker.raised
     /\ \A i \in DOMAIN MEETINGS_FILE :
          LastOfDate(i) =>
            Range(lookup.value[to_datetime(MEETINGS_FILE[i].Meeting_Date)])
              = Covered(MEETINGS_FILE[i]) \ {""}
     /\ \A s \in RosterScouts, r \in CatalogIds :
          Completion(s, r) <=>
            \E i \in DOMAIN MEETINGS_FILE :
              /\ LastOfDate(i)
              /\ r \in Covered(MEETINGS_FILE[i])
              /\ Attended(s, MEETINGS_FILE[i].Meeting_Date)

\* two meetings share a date, the earlier covers Bobcat.1 and the later
\* BuildItUp.1; the roster scout is recorded on the date and holds
\* BuildItUp.1 alone
C21_Witness ==
  \E i \in DOMAIN MEETINGS_FILE, k \in DOMAIN MEETINGS_FILE, s \in RosterScouts :
    /\ i < k
    /\ MEETINGS_FILE[i].Meeting_Date = MEETINGS_FILE[k].Meeting_Date
    /\ Covered(MEETINGS_FILE[i]) = {"Bobcat.1"}
    /\ Covered(MEETINGS_FILE[k]) = {"BuildItUp.1"}
    /\ Attended(s, MEETINGS_FILE[k].Meeting_Date)
    /\ CatalogIds = {"Bobcat.1", "BuildItUp.1"}
    /\ master_tracker.true = {<<s, "BuildItUp.1">>}

\* a step changes the date of meeting i to d and nothing else
DateOnlyChange(i, d) ==
  /\ d # MEETINGS_FILE[i].Meeting_Date
  /\ Len(MEETINGS_FILE') = Len(MEETINGS_FILE)
  /\ Range(MEETINGS_FILE') =
       (Range(MEETINGS_FILE) \ {MEETINGS_FILE[i]})
         \cup {[MEETINGS_FILE[i] EXCEPT !.Meeting_Date = d]}
  /\ UNCHANGED <<ROSTER_FILE, REQUIREMENT_KEY_FILE, ATTENDANCE_FILE>>

\* C25: when Update Meeting changes only the date of a meeting, every roster
\* scout recorded at the meeting who held a catalog requirement the meeting
\* covers holds it after the change.
C25_DateChangeKeepsCredit ==
  [][ ( /\ MEETINGS_FILE' # MEETINGS_FILE
        /\ UNCHANGED <<ROSTER_FILE, REQUIREMENT_KEY_FILE, ATTENDANCE_FILE>> )
      => \A i \in DOMAIN MEETINGS_FILE, d \in Days :
           DateOnlyChange(i, d) =>
             \A s \in RosterScouts, r \in CatalogIds \cap Covered(MEETINGS_FILE[i]) :
               ( Attended(s, MEETINGS_FILE[i].Meeting_Date) /\ Completion(s, r) )
                 => <<s, r>> \in master_tracker_next.true
    ]_vars

\* C26: a step of Add Meeting that adds a meeting to the catalog changes no
\* entry of the completion matrix, whatever was held and deleted before on
\* the date of the new meeting.
C26_NewMeetingCreditsNobody ==
  [][ ( /\ Len(MEETINGS_FILE') = Len(MEETINGS_FILE) + 1
        /\ UNCHANGED <<ROSTER_FILE, REQUIREMENT_KEY_FILE, ATTENDANCE_FILE>> )
      => ( ( \E d \in Days, title \in Titles, sel \in SUBSET (DOMAIN load_requirement_key) :
               AddMeeting(d, title, sel, FALSE) )
           => master_tracker_next.true = master_tracker.true )
    ]_vars

\* the dates of the meetings in the catalog as persisted
CatalogDates(meetings_file) == {meetings_file[i].Meeting_Date : i \in DOMAIN meetings_file}

\* C27: two successive Delete Meeting clicks on a meeting remove it, whatever
\* was clicked before: a click on the meeting removes it or arms the
\* confirmation for it, and a click on the meeting the confirmation is armed
\* for removes it.
C27_TwoClicksDelete ==
  [][ UNCHANGED <<ROSTER_FILE, REQUIREMENT_KEY_FILE, ATTENDANCE_FILE>>
      => \A sd \in CatalogDates(MEETINGS_FILE) :
           DeleteMeeting(sd) =>
             /\ sd \notin CatalogDates(MEETINGS_FILE') \/ session_state'.confirm_delete = <<sd>>
             /\ session_state.confirm_delete = <<sd>> => sd \notin CatalogDates(MEETINGS_FILE')
    ]_vars

\* C28: a step that takes a meeting out of the catalog is a Delete Meeting
\* click on it with the confirmation armed for it, takes out that meeting
\* alone and leaves the ledger as it was; and the click that armed the
\* confirmation is the one just before: a Delete click on another meeting
\* leaves no confirmation armed.
C28_DeleteNeedsClickJustBefore ==
  [][ /\ Len(MEETINGS_FILE') < Len(MEETINGS_FILE) =>
           \E sd \in CatalogDates(MEETINGS_FILE) :
             /\ session_state.confirm_delete = <<sd>>
             /\ DeleteMeeting(sd)
             /\ Len(MEETINGS_FILE') = Len(MEETINGS_FILE) - 1
             /\ Range(MEETINGS_FILE') =
                  {m \in Range(MEETINGS_FILE) : m.Meeting_Date # sd}
             /\ UNCHANGED <<ROSTER_FILE, REQUIREMENT_KEY_FILE, ATTENDANCE_FILE>>
      /\ UNCHANGED <<ROSTER_FILE, REQUIREMENT_KEY_FILE, ATTENDANCE_FILE>> =>
           \A sd \in CatalogDates(MEETINGS_FILE) :
             ( DeleteMeeting(sd) /\ session_state.confirm_delete \notin {<<>>, <<sd>>} )
               => session_state'.confirm_delete \in {<<>>, <<sd>>}
    ]_vars

\* ------------------------------------------------------------------------
\* The first run and the wizard
\* ------------------------------------------------------------------------
\* C22: is_first_run() is true exactly when the roster is empty and the
\* requirement catalog is the default Lion list.
C22_FirstRunIffDefaultCatalog ==
  is_first_run <=> (ROSTER_FILE = <<>> /\ REQUIREMENT_KEY_FILE = LION_REQUIREMENTS)

\* ------------------------------------------------------------------------
\* Saving attendance, changing and deleting meetings
\* ------------------------------------------------------------------------
\* how many rows of the ledger are the record (date, scout)
CountRecords(attendance_file, date, scout) ==
  Cardinality({j \in DOMAIN attendance_file :
                 attendance_file[j] = [Meeting_Date |-> date, Scout_Name |-> scout]})

\* C23: a save on Log Attendance for the meeting of date D with the selected
\* scouts X leaves in the ledger, for D, one record for each scout of X and
\* no other record, and for every other date the records it held before.
C23_SaveAttendanceReplacesDate ==
  [][ ( /\ UNCHANGED <<ROSTER_FILE, REQUIREMENT_KEY_FILE, MEETINGS_FILE>>
        /\ cache' = clear_cache(cache) )
      => \A idx \in DOMAIN MEETINGS_FILE, X \in SUBSET (DOMAIN ROSTER_FILE) :
           SaveAttendance(idx, X) =>
             LET D == MEETINGS_FILE[idx].Meeting_Date
             IN /\ \A j \in DOMAIN ATTENDANCE_FILE' :
                     ATTENDANCE_FILE'[j].Meeting_Date = D =>
                       \E n \in X : ATTENDANCE_FILE'[j].Scout_Name = ROSTER_FILE[n]
                /\ \A n \in X : CountRecords(ATTENDANCE_FILE', D, ROSTER_FILE[n]) = 1
                /\ \A d \in Days \ {D}, s \in Scouts :
                     CountRecords(ATTENDANCE_FILE', d, s) = CountRecords(ATTENDANCE_FILE, d, s)
                /\ Len(ATTENDANCE_FILE') =
                     Cardinality(X) + Len(RecordsNotOn(D))
    ]_vars

\* the ledger holds both scouts on one date and a single scout on the other:
\* it was saved for each date, and the second save kept the first's records
C23_Witness ==
  \E d \in Days, e \in Days, s \in Scouts :
    /\ d # e
    /\ \A t \in Scouts : CountRecords(ATTENDANCE_FILE, d, t) = 1
    /\ \A t \in Scouts : CountRecords(ATTENDANCE_FILE, e, t) = (IF t = s THEN 1 ELSE 0)
    /\ Len(ATTENDANCE_FILE) = 3

\* ------------------------------------------------------------------------
\* The rank on the dashboard, on the individual report and in the PDF report
\* ------------------------------------------------------------------------
IndividualProgress(scout) ==
  individual_scout_progress(scout, load_requirement_key, load_meetings, load_attendance)
IndividualRank(scout) == individual_rank_earned(load_requirement_key, IndividualProgress(scout))

\* C24: for every roster scout the dashboard, the individual report and the
\* PDF progress report hold the same completion for every catalog
\* requirement and the same rank-earned value.
C24_SameRankOnEveryReport ==
  \A s \in RosterScouts :
    /\ \A r \in CatalogIds :
         /\ IndividualProgress(s)[r] = Completion(s, r)
         /\ ScoutReport(s).scout_progress[r] = Completion(s, r)
    /\ IndividualRank(s) = DashboardRank(s).lion_rank_earned
    /\ ScoutReport(s).rank_earned = DashboardRank(s).lion_rank_earned

\* C29: in a session that opened as a first run, the navigation is shown
\* only once onboarding_complete is true; the wizard's step starts at 1 and
\* only ever moves on by one; onboarding_complete turns from false to true
\* only by Done at step 3 with a scout in the roster; and once true it is
\* not false again in the session.
C29_WizardBeforeNavigation ==
  [][ /\ session_state'.navigation # <<>> => session_state'.onboarding_complete = <<TRUE>>
      /\ session_state'.onboarding_step # session_state.onboarding_step =>
           \/ NewSession
           \/ session_state.onboarding_step = <<>> /\ session_state'.onboarding_step = <<1>>
           \/ /\ session_state.onboarding_step # <<>>
              /\ session_state'.onboarding_step = <<session_state.onboarding_step[1] + 1>>
      /\ ( /\ session_state.onboarding_complete = <<FALSE>>
           /\ session_state'.onboarding_complete # <<FALSE>> ) =>
           \/ NewSession
           \/ /\ OnboardingDone
              /\ session_state.onboarding_step = <<3>>
              /\ ROSTER_FILE # <<>>
              /\ session_state'.onboarding_complete = <<TRUE>>
      /\ session_state.onboarding_complete = <<TRUE>> =>
           \/ NewSession
           \/ session_state'.onboarding_complete = <<TRUE>>
    ]_vars

\* a session that went through the wizard with the Tiger list and one scout
\* and has moved on to another page of the navigation
C29_Witness ==
  /\ session_state.onboarding_complete = <<TRUE>>
  /\ session_state.onboarding_step = <<4>>
  /\ session_state.selected_rank = <<"Tiger">>
  /\ session_state.navigation = <<"Manage Requirements">>
  /\ ROSTER_FILE # <<>>

\* ------------------------------------------------------------------------
\* The meeting report
\* ------------------------------------------------------------------------
\* C30: in the report of every meeting the present and the absent scouts add
\* up to the roster size, and the attendance percentage is between 0 and 100.
C30_MeetingReportCounts ==
  \A i \in DOMAIN load_meetings :
    LET report == meeting_report(load_meetings[i], load_roster, load_attendance)
    IN /\ report.present_count + report.absent_count = report.total_scouts
       /\ report.total_scouts = Len(ROSTER_FILE)
       /\ 0 <= report.attendance_percentage.num
       /\ report.attendance_percentage.num <= 100 * report.attendance_percentage.den

====
